---- MODULE Spec2Model ----
(***************************************************************************)
(* Verification model of the vero rendering pipeline: the recursive value  *)
(* formatter (format), the ANSI-aware text metrics (stripAnsi,             *)
(* sliceWithAnsi) and the responsive table layout engine (createTable).    *)
(***************************************************************************)
EXTENDS Integers, Sequences, FiniteSets, TLC

(***************************************************************************)
(* Bounds of the model.                                                    *)
(***************************************************************************)
\* number of identity-bearing values in a value graph handed to format
MaxNodes == 2
\* total number of fields / array elements in a value graph
MaxEdges == 2
\* largest explicit options.maxDepth a caller passes (0 stands for "not given")
MaxDepthOption == 2

(***************************************************************************)
(* Program constants.                                                      *)
(***************************************************************************)
\* options.maxDepth || 10
DEFAULT_MAX_DEPTH == 10

(***************************************************************************)
(* Part 1: format(value, options) as a recursive traversal.                *)
(*                                                                         *)
(* A value graph is a heap of nodes; node 1 is the value passed to the     *)
(* top-level call.  A node has a kind (the closed kind set the dispatch    *)
(* of format distinguishes) and, for arrays and plain objects, the list    *)
(* of its elements / field values as references to nodes.                  *)
(***************************************************************************)
PrimKinds == {"null", "undefined", "boolean", "number", "string", "symbol", "function"}
CompositeKinds == {"array", "object"}
\* typeof value === "object" and value !== null
ObjectKinds == CompositeKinds \cup {"date", "invalidDate", "error", "errorNoStack"}
Kinds == PrimKinds \cup ObjectKinds

VARIABLES
  heap,        \* Seq of [kind, children]: the value graph built by the caller
  pc,          \* "build" | "running" | "done" | "threw"
  maxDepthOpt, \* options.maxDepth of the top-level call (0: not given)
  stack,       \* call stack of format: Seq of [node, depth, idx]
  seen,        \* opts.seen, the WeakSet of the running top-level call
  out,         \* tokens of the string under construction, in output order
  trace,       \* history of the format invocations of the running call
  prevOut      \* outcome of the previous top-level call on the same value

fvars == <<heap, pc, maxDepthOpt, stack, seen, out, trace, prevOut>>

VARIABLES
  sParts,      \* the pieces a caller put a styled string together from
  sCall,       \* the last call made on sText: [fn, start, end] ("none" at first)
  sResult      \* what that call returned

svars == <<sParts, sCall, sResult>>

VARIABLES
  tData,       \* the array handed to createTable: Seq of [isRecord, start, vals]
  tCall,       \* the createTable call made: [called, width, enabled]
  tResult      \* what createTable produced

tvars == <<tData, tCall, tResult>>

VARIABLES
  wParts,      \* the pieces the text handed to wrapText is put together from
  wCall,       \* the wrapText call made: [called, maxWidth]
  wpc,         \* "build" | "line" | "chunk" | "done" | "stuck"
  wLine,       \* i, the index of the logical line being handled (from 0)
  wOffset,     \* offset, the visual offset the chunking loop has reached
  wFirst,      \* isFirstPart
  wResult      \* result: Seq of [line, offset, first, prefix, chunk]

wvars == <<wParts, wCall, wpc, wLine, wOffset, wFirst, wResult>>

VARIABLES
  vItems,      \* the values a caller has put together: Seq of value trees
  vCall,       \* the format call made: [called, asArray, enabled]
  vResult      \* the string format returned

vvars == <<vItems, vCall, vResult>>

VARIABLES
  timers,      \* the timer store: label -> start time of its running timer
  counters,    \* the counter store: label -> value
  now,         \* the last reading of performance.now()
  lCalls       \* the calls made on the two stores, oldest first

lvars == <<timers, counters, now, lCalls>>

VARIABLES
  mProcs,      \* the measure calls made, oldest first: [label, behaviour, pc, ...]
  mOut         \* the timing lines printed by timeEnd: [id, label, bar]

mvars == <<mProcs, mOut>>

VARIABLES
  groupIndentLevel,  \* the module-wide group indent level
  gCalls             \* the logger calls made, oldest first, with what they printed

gvars == <<groupIndentLevel, gCalls>>

vars == <<fvars, svars, tvars, wvars, vvars, lvars, mvars, gvars>>

NoOutcome == [status |-> "none", out |-> <<>>]
NoCall == [fn |-> "none", start |-> 0, end |-> 0]
NoTableCall == [called |-> FALSE, width |-> 0, enabled |-> FALSE]
NoWrapCall == [called |-> FALSE, maxWidth |-> 0]
NoValueCall == [called |-> FALSE, asArray |-> FALSE, enabled |-> FALSE]
NoTable == [status |-> "none", mode |-> "none", headers |-> <<>>,
            natural |-> <<>>, colWidths |-> <<>>, lines |-> <<>>, cards |-> <<>>]

\* the state that belongs to the other parts of the model
notFormat == <<svars, tvars, wvars, vvars, lvars, mvars, gvars>>
notText == <<fvars, tvars, wvars, vvars, lvars, mvars, gvars>>
notTable == <<fvars, svars, wvars, vvars, lvars, mvars, gvars>>
notWrap == <<fvars, svars, tvars, vvars, lvars, mvars, gvars>>
notValue == <<fvars, svars, tvars, wvars, lvars, mvars, gvars>>
notLog == <<fvars, svars, tvars, wvars, vvars, mvars, gvars>>
notMeasure == <<fvars, svars, tvars, wvars, vvars, gvars>>
notGroup == <<fvars, svars, tvars, wvars, vvars, lvars, mvars>>

Node(n) == heap[n]
TotalEdges == LET RECURSIVE Sum(_)
                  Sum(i) == IF i = 0 THEN 0 ELSE Len(heap[i].children) + Sum(i - 1)
              IN Sum(Len(heap))

\* options.maxDepth || 10
EffectiveMaxDepth(opt) == IF opt = 0 THEN DEFAULT_MAX_DEPTH ELSE opt

\* a seen set kept from one top-level call to the next
FreshSeenShared(old) == old

\* options.seen || new WeakSet(): a top-level caller passes no seen
FreshSeen(old) == {}

\* a depth test that lets one more level through
DepthExceededOffByOne(depth, maxDepth) == depth > maxDepth

\* if (opts.depth >= opts.maxDepth)
DepthExceeded(depth, maxDepth) == depth >= maxDepth

\* a membership test that recognises the formatted value alone
SeenHasRootOnly(s, n) == n \in s /\ n = 1

\* opts.seen.has(value)
SeenHas(s, n) == n \in s

\* a visit that is not registered
SeenAddForgotten(s, n) == s

\* opts.seen.add(value)
SeenAdd(s, n) == s \cup {n}

Top == stack[Len(stack)]
Pop == SubSeq(stack, 1, Len(stack) - 1)
\* the invocation on top returns: either to its caller or, at the top level, to
\* the caller of format
ReturnTo(rest) == IF rest = <<>> THEN "done" ELSE "running"

Visit(n, d, r) == [n |-> n, d |-> d, r |-> r,
                   onPath |-> \E i \in 1..(Len(stack) - 1) : stack[i].node = n]

----------------------------------------------------------------------------
\* The caller builds the value: a first value of any kind ...
Init ==
  /\ heap \in {<<[kind |-> k, children |-> <<>>]>> : k \in Kinds}
  /\ pc = "build"
  /\ maxDepthOpt = 0
  /\ stack = <<>>
  /\ seen = {}
  /\ out = <<>>
  /\ trace = <<>>
  /\ prevOut = NoOutcome
  /\ sParts = <<>>
  /\ sCall = NoCall
  /\ sResult = <<>>
  /\ tData = <<>>
  /\ tCall = NoTableCall
  /\ tResult = NoTable
  /\ wParts = <<>>
  /\ wCall = NoWrapCall
  /\ wpc = "build"
  /\ wLine = 0
  /\ wOffset = 0
  /\ wFirst = TRUE
  /\ wResult = <<>>
  /\ vItems = <<>>
  /\ vCall = NoValueCall
  /\ vResult = <<>>
  /\ timers = [k \in {} |-> 0]
  /\ counters = [k \in {} |-> 0]
  /\ now = 0
  /\ lCalls = <<>>
  /\ mProcs = <<>>
  /\ mOut = <<>>
  /\ groupIndentLevel = 0
  /\ gCalls = <<>>

\* ... a new value stored in a field / element of an array or object ...
BuildNewChild(p, k) ==
  /\ pc = "build"
  /\ Len(heap) < MaxNodes
  /\ TotalEdges < MaxEdges
  /\ heap[p].kind \in CompositeKinds
  /\ heap' = Append([heap EXCEPT ![p].children = Append(@, Len(heap) + 1)],
                    [kind |-> k, children |-> <<>>])
  /\ UNCHANGED <<pc, maxDepthOpt, stack, seen, out, trace, prevOut>>
  /\ UNCHANGED notFormat

\* ... or an existing value stored again (obj.self = obj, a shared child)
BuildLink(p, c) ==
  /\ pc = "build"
  /\ TotalEdges < MaxEdges
  /\ heap[p].kind \in CompositeKinds
  /\ heap' = [heap EXCEPT ![p].children = Append(@, c)]
  /\ UNCHANGED <<pc, maxDepthOpt, stack, seen, out, trace, prevOut>>
  /\ UNCHANGED notFormat

\* format(value, {maxDepth}) called from outside: depth 0, a new WeakSet
TopLevelCall(md) ==
  /\ pc \in {"build", "done", "threw"}
  /\ pc # "build" => md = maxDepthOpt
  /\ maxDepthOpt' = md
  /\ prevOut' = IF pc = "build" THEN NoOutcome ELSE [status |-> pc, out |-> out]
  /\ seen' = FreshSeen(seen)
  /\ stack' = <<[node |-> 1, depth |-> 0, idx |-> 0]>>
  /\ out' = <<>>
  /\ trace' = <<>>
  /\ pc' = "running"
  /\ UNCHANGED heap
  /\ UNCHANGED notFormat

\* the returns for null, undefined, boolean, number, string, symbol, function
FormatPrimitive ==
  /\ pc = "running"
  /\ Top.idx = 0
  /\ Node(Top.node).kind \in PrimKinds
  /\ out' = Append(out, Node(Top.node).kind)
  /\ trace' = Append(trace, Visit(Top.node, Top.depth, "leaf"))
  /\ stack' = Pop
  /\ pc' = ReturnTo(Pop)
  /\ UNCHANGED <<heap, maxDepthOpt, seen, prevOut>>
  /\ UNCHANGED notFormat

\* if (opts.depth >= opts.maxDepth) return "[Object]"
FormatDepthLimit ==
  /\ pc = "running"
  /\ Top.idx = 0
  /\ Node(Top.node).kind \notin PrimKinds
  /\ DepthExceeded(Top.depth, EffectiveMaxDepth(maxDepthOpt))
  /\ out' = Append(out, "[Object]")
  /\ trace' = Append(trace, Visit(Top.node, Top.depth, "depth"))
  /\ stack' = Pop
  /\ pc' = ReturnTo(Pop)
  /\ UNCHANGED <<heap, maxDepthOpt, seen, prevOut>>
  /\ UNCHANGED notFormat

\* if (opts.seen.has(value)) return "[Circular]"
FormatCircular ==
  /\ pc = "running"
  /\ Top.idx = 0
  /\ Node(Top.node).kind \in ObjectKinds
  /\ ~DepthExceeded(Top.depth, EffectiveMaxDepth(maxDepthOpt))
  /\ SeenHas(seen, Top.node)
  /\ out' = Append(out, "[Circular]")
  /\ trace' = Append(trace, Visit(Top.node, Top.depth, "circular"))
  /\ stack' = Pop
  /\ pc' = ReturnTo(Pop)
  /\ UNCHANGED <<heap, maxDepthOpt, seen, prevOut>>
  /\ UNCHANGED notFormat

\* opts.seen.add(value), then the array branch or the plain-object branch:
\* "[]" / "{}" when empty, otherwise the children are formatted one by one
FormatExpand ==
  /\ pc = "running"
  /\ Top.idx = 0
  /\ Node(Top.node).kind \in CompositeKinds
  /\ ~DepthExceeded(Top.depth, EffectiveMaxDepth(maxDepthOpt))
  /\ ~SeenHas(seen, Top.node)
  /\ seen' = SeenAdd(seen, Top.node)
  /\ trace' = Append(trace, Visit(Top.node, Top.depth, "expand"))
  /\ IF Node(Top.node).children = <<>>
       THEN /\ out' = Append(out, IF Node(Top.node).kind = "array" THEN "[]" ELSE "{}")
            /\ stack' = Pop
            /\ pc' = ReturnTo(Pop)
       ELSE /\ out' = Append(out, IF Node(Top.node).kind = "array" THEN "[" ELSE "{")
            /\ stack' = [stack EXCEPT ![Len(stack)].idx = 1]
            /\ pc' = "running"
  /\ UNCHANGED <<heap, maxDepthOpt, prevOut>>
  /\ UNCHANGED notFormat

\* format(item, {...opts, depth: opts.depth + 1}) for the next element / field
FormatRecurse ==
  /\ pc = "running"
  /\ Top.idx >= 1
  /\ Top.idx <= Len(Node(Top.node).children)
  /\ stack' = Append([stack EXCEPT ![Len(stack)].idx = @ + 1],
                     [node |-> Node(Top.node).children[Top.idx],
                      depth |-> Top.depth + 1, idx |-> 0])
  /\ UNCHANGED <<heap, pc, maxDepthOpt, seen, out, trace, prevOut>>
  /\ UNCHANGED notFormat

\* all elements / fields formatted: the joined string is returned
FormatReturn ==
  /\ pc = "running"
  /\ Top.idx >= 1
  /\ Top.idx > Len(Node(Top.node).children)
  /\ out' = Append(out, IF Node(Top.node).kind = "array" THEN "]" ELSE "}")
  /\ stack' = Pop
  /\ pc' = ReturnTo(Pop)
  /\ UNCHANGED <<heap, maxDepthOpt, seen, trace, prevOut>>
  /\ UNCHANGED notFormat

\* value instanceof Date: value.toISOString() throws a RangeError when the
\* time value is NaN; nothing in format or its callers in format catches it
FormatDate ==
  /\ pc = "running"
  /\ Top.idx = 0
  /\ Node(Top.node).kind \in {"date", "invalidDate"}
  /\ ~DepthExceeded(Top.depth, EffectiveMaxDepth(maxDepthOpt))
  /\ ~SeenHas(seen, Top.node)
  /\ seen' = SeenAdd(seen, Top.node)
  /\ IF Node(Top.node).kind = "date"
       THEN /\ out' = Append(out, "date")
            /\ trace' = Append(trace, Visit(Top.node, Top.depth, "leaf"))
            /\ stack' = Pop
            /\ pc' = ReturnTo(Pop)
       ELSE /\ out' = out
            /\ trace' = Append(trace, Visit(Top.node, Top.depth, "throw"))
            /\ stack' = <<>>
            /\ pc' = "threw"
  /\ UNCHANGED <<heap, maxDepthOpt, prevOut>>
  /\ UNCHANGED notFormat

\* value instanceof Error: "<name>: <message>\n<first stack frame or ''>"
FormatError ==
  /\ pc = "running"
  /\ Top.idx = 0
  /\ Node(Top.node).kind \in {"error", "errorNoStack"}
  /\ ~DepthExceeded(Top.depth, EffectiveMaxDepth(maxDepthOpt))
  /\ ~SeenHas(seen, Top.node)
  /\ seen' = SeenAdd(seen, Top.node)
  /\ out' = out \o <<"error", IF Node(Top.node).kind = "error" THEN "frame" ELSE "">>
  /\ trace' = Append(trace, Visit(Top.node, Top.depth, "leaf"))
  /\ stack' = Pop
  /\ pc' = ReturnTo(Pop)
  /\ UNCHANGED <<heap, maxDepthOpt, prevOut>>
  /\ UNCHANGED notFormat

FormatNext ==
  \/ \E p \in 1..Len(heap), k \in Kinds : BuildNewChild(p, k)
  \/ \E p \in 1..Len(heap), c \in 1..Len(heap) : BuildLink(p, c)
  \/ \E md \in 0..MaxDepthOption : TopLevelCall(md)
  \/ FormatPrimitive
  \/ FormatDepthLimit
  \/ FormatCircular
  \/ FormatExpand
  \/ FormatRecurse
  \/ FormatReturn
  \/ FormatDate
  \/ FormatError

Spec == Init /\ [][FormatNext]_vars

----------------------------------------------------------------------------
(***************************************************************************)
(* Properties of format.                                                   *)
(***************************************************************************)
MD == EffectiveMaxDepth(maxDepthOpt)
Markers(tok) == Cardinality({i \in 1..Len(out) : out[i] = tok})
Entries(P(_)) == {i \in 1..Len(trace) : P(trace[i])}
IsObjectVisit(e) == heap[e.n].kind \in ObjectKinds

\* C1: for every finite value graph (cyclic or deeper than maxDepth included)
\* the call terminates and returns a string; recursion never goes past the
\* placeholder depth.  Stated as: the call stack never holds more than
\* maxDepth + 1 invocations and a call that ended has returned its string.
C1_TerminatesWithString ==
  /\ Len(stack) <= MD + 1
  /\ (pc # "build" /\ stack = <<>>) => pc = "done"

\* C2: a composite reached at depth >= maxDepth is rendered as "[Object]", its
\* children are not visited and it is not put in seen; no invocation runs at a
\* depth greater than maxDepth.
C2_DepthLimitStopsDescent ==
  /\ \A i \in 1..Len(stack) : stack[i].depth <= MD
  /\ \A i \in 1..Len(stack) : stack[i].idx >= 1 => stack[i].depth < MD
  /\ \A i \in 1..Len(trace) :
        /\ trace[i].d <= MD
        /\ (IsObjectVisit(trace[i]) /\ trace[i].d >= MD) => trace[i].r = "depth"
        /\ (trace[i].r = "depth" /\ i < Len(trace)) => trace[i + 1].d <= trace[i].d
  /\ Markers("[Object]") = Cardinality(Entries(LAMBDA e : e.r = "depth"))
  /\ \A n \in seen : \E i \in 1..Len(trace) :
        trace[i].n = n /\ trace[i].d < MD /\ trace[i].r # "depth"

\* a call that met a non-empty composite at the depth limit and left it alone
C2_Witness ==
  /\ pc = "done"
  /\ \E i \in 1..Len(trace) :
        /\ trace[i].r = "depth"
        /\ heap[trace[i].n].kind \in CompositeKinds
        /\ heap[trace[i].n].children # <<>>
        /\ trace[i].n \notin seen

\* C3 as claimed: the number of "[Circular]" markers in the output equals the
\* number of traversed edges that lead back to a value being formatted on the
\* current descent.
C3_MarkerPerBackEdge ==
  pc = "done" =>
    Markers("[Circular]") =
      Cardinality(Entries(LAMBDA e : IsObjectVisit(e) /\ e.onPath))

\* C3 amended: a "[Circular]" marker is produced exactly for each traversed
\* edge, at a depth below maxDepth, that leads to an array, object, Date or
\* Error already visited earlier in the same call, on the current descent or
\* not; a = {}; a.self = a formatted with the default maxDepth has exactly one.
C3_MarkerPerRevisit ==
  /\ \A i \in 1..Len(trace) :
        (trace[i].r = "circular") <=>
          /\ IsObjectVisit(trace[i])
          /\ trace[i].d < MD
          /\ \E j \in 1..(i - 1) : trace[j].n = trace[i].n /\ trace[j].r # "depth"
  /\ Markers("[Circular]") = Cardinality(Entries(LAMBDA e : e.r = "circular"))
  /\ (/\ pc = "done"
      /\ maxDepthOpt = 0
      /\ heap = <<[kind |-> "object", children |-> <<1>>]>>)
       => Markers("[Circular]") = 1

\* a finished call that marked a shared child which is not on the descent
C3_Witness ==
  /\ pc = "done"
  /\ \E i \in 1..Len(trace) : trace[i].r = "circular" /\ ~trace[i].onPath

\* C4: format never throws, whatever the kind of the value: every invocation
\* of every call ends by returning a string.
C4_NeverThrows ==
  /\ pc # "threw"
  /\ \A i \in 1..Len(trace) : trace[i].r # "throw"

\* C5: seen is scoped to one top-level call: a later top-level call on the
\* same value ends exactly as the one before it, with the same output.
C5_SameOutputEachCall ==
  (pc \in {"done", "threw"} /\ prevOut.status # "none") =>
     prevOut = [status |-> pc, out |-> out]

\* a second call on a non-empty composite that was expanded again
C5_Witness ==
  /\ pc = "done"
  /\ prevOut.status = "done"
  /\ heap[1].kind \in CompositeKinds
  /\ heap[1].children # <<>>
  /\ trace[1].r = "expand"

\* the composites the call can reach from the formatted value along fewer
\* than maxDepth edges, whatever path leads to them
RECURSIVE ReachedWithin(_)
ReachedWithin(d) ==
  IF d = 0 THEN {1}
  ELSE LET R == ReachedWithin(d - 1)
       IN  R \cup {c \in 1..Len(heap) :
                     \E p \in R : /\ heap[p].kind \in CompositeKinds
                                  /\ \E k \in 1..Len(heap[p].children) :
                                        heap[p].children[k] = c}
ReachableComposites ==
  IF MD = 0 THEN {}
  ELSE {n \in ReachedWithin(MD - 1) : heap[n].kind \in CompositeKinds}
Expansions == Entries(LAMBDA e : e.r = "expand")

\* C27: within one top-level call seen only grows (no step of the call takes
\* a value out of it, and it holds every value the call added), each distinct
\* composite is expanded at most once, and the number of expansions is at
\* most the number of distinct composites reachable within maxDepth.
C27_EachCompositeExpandedOnce ==
  /\ [](/\ \A i, j \in Expansions : trace[i].n = trace[j].n => i = j
        /\ \A i \in Expansions : /\ trace[i].n \in ReachableComposites
                                 /\ trace[i].n \in seen
        /\ Cardinality(Expansions) <= Cardinality(ReachableComposites)
        /\ seen = {trace[i].n : i \in Entries(LAMBDA e :
                      IsObjectVisit(e) /\ e.r \notin {"depth", "circular"})})
  /\ [][pc = "running" => seen \subseteq seen']_vars

\* a finished call on a graph with sharing: a composite met a second time
\* was not expanded again, and every reachable composite was expanded once
C27_Witness ==
  /\ pc = "done"
  /\ \E i \in 1..Len(trace) :
        /\ trace[i].r = "circular"
        /\ heap[trace[i].n].kind \in CompositeKinds
        /\ \E j \in Expansions : trace[j].n = trace[i].n
  /\ Cardinality(Expansions) = Cardinality(ReachableComposites)
  /\ Cardinality(Expansions) >= 2

----------------------------------------------------------------------------
(***************************************************************************)
(* Part 2: text metrics over styled strings (utils/text.ts).               *)
(*                                                                         *)
(* A string is a sequence of characters.  "ESC" stands for the one         *)
(* character \x1b; every other character is itself.                        *)
(***************************************************************************)
\* number of pieces (control sequences, visible or stray characters) a
\* styled string is put together from
MaxPieces == 4

ESC == "ESC"
CodeChars == {"0", "1", "2", "3", "4", "5", "6", "7", "8", "9", ";"}
RED == <<ESC, "[", "3", "1", "m">>
RESET == <<ESC, "[", "0", "m">>
\* what styled strings are made of: the sequences the style functions emit,
\* visible characters, and the characters of a malformed / partial sequence
Pieces == {RED, RESET, <<"a">>, <<"b">>, <<ESC>>, <<"[">>, <<"1">>, <<"m">>}

\* length of the match of /^\x1b\[[0-9;]*m/ on text.substring(i - 1), 0 if none
AnsiMatchLen(text, i) ==
  LET RECURSIVE Scan(_)
      Scan(k) == IF k <= Len(text) /\ text[k] \in CodeChars THEN Scan(k + 1) ELSE k
  IN IF i + 1 <= Len(text) /\ text[i] = ESC /\ text[i + 1] = "["
       THEN LET k == Scan(i + 2)
            IN IF k <= Len(text) /\ text[k] = "m" THEN k - i + 1 ELSE 0
       ELSE 0

\* text.replace(/\x1b\[[0-9;]*m/g, "")
stripAnsi(text) ==
  LET RECURSIVE Strip(_)
      Strip(i) == IF i > Len(text) THEN <<>>
                  ELSE IF AnsiMatchLen(text, i) > 0
                         THEN Strip(i + AnsiMatchLen(text, i))
                         ELSE <<text[i]>> \o Strip(i + 1)
  IN Strip(1)

\* stripAnsi(s).length
visualLength(text) == Len(stripAnsi(text))

\* a range test that excludes the first character of the range
InSliceOffByOne(visualIndex, targetStart, targetEnd) ==
  visualIndex > targetStart /\ visualIndex < targetEnd

\* visualIndex >= targetStart && visualIndex < targetEnd
InSlice(visualIndex, targetStart, targetEnd) ==
  visualIndex >= targetStart /\ visualIndex < targetEnd

\* the loop of sliceWithAnsi, targetStart and targetEnd being settled
sliceRange(text, targetStart, targetEnd) ==
  LET RECURSIVE Loop(_, _, _)
      Loop(i, visualIndex, result) ==
        IF i > Len(text) THEN result
        ELSE IF AnsiMatchLen(text, i) > 0
          THEN Loop(i + AnsiMatchLen(text, i), visualIndex,
                    IF visualIndex >= targetStart
                      THEN result \o SubSeq(text, i, i + AnsiMatchLen(text, i) - 1)
                      ELSE result)
          ELSE LET r == IF InSlice(visualIndex, targetStart, targetEnd)
                          THEN Append(result, text[i]) ELSE result
               IN IF visualIndex + 1 >= targetEnd THEN r
                  ELSE Loop(i + 1, visualIndex + 1, r)
  IN Loop(1, 0, <<>>)

\* sliceWithAnsi(text, start, end); end = -1 stands for an omitted end
sliceWithAnsi(text, start, end) ==
  sliceRange(text, start, IF end = -1 THEN Len(stripAnsi(text)) ELSE end)

\* String.prototype.slice(i, j) for 0 <= i <= j <= length
JsSlice(str, i, j) == SubSeq(str, i + 1, j)

\* the concatenation of the pieces: Seq of characters
Flatten(parts) ==
  LET RECURSIVE Cat(_)
      Cat(k) == IF k > Len(parts) THEN <<>> ELSE parts[k] \o Cat(k + 1)
  IN Cat(1)

sText == Flatten(sParts)

\* a caller puts a styled string together ...
TextAppend(piece) ==
  /\ sCall.fn = "none"
  /\ Len(sParts) < MaxPieces
  /\ sParts' = Append(sParts, piece)
  /\ UNCHANGED <<sCall, sResult>>
  /\ UNCHANGED notText

\* ... and slices it by visual offsets
SliceCall(start, end) ==
  /\ sCall.fn = "none"
  /\ sCall' = [fn |-> "sliceWithAnsi", start |-> start, end |-> end]
  /\ sResult' = sliceWithAnsi(sText, start, end)
  /\ UNCHANGED sParts
  /\ UNCHANGED notText

\* ... or strips it
StripCall ==
  /\ sCall.fn = "none"
  /\ sCall' = [fn |-> "stripAnsi", start |-> 0, end |-> 0]
  /\ sResult' = stripAnsi(sText)
  /\ UNCHANGED sParts
  /\ UNCHANGED notText

TextNext ==
  \/ \E piece \in Pieces : TextAppend(piece)
  \/ \E start \in 0..(visualLength(sText) + 1), end \in -1..(visualLength(sText) + 1) :
        SliceCall(start, end)
  \/ StripCall

\* no value is being formatted; the string to measure is still empty
InitText ==
  /\ heap = <<>>
  /\ pc = "build"
  /\ maxDepthOpt = 0
  /\ stack = <<>>
  /\ seen = {}
  /\ out = <<>>
  /\ trace = <<>>
  /\ prevOut = NoOutcome
  /\ sParts = <<>>
  /\ sCall = NoCall
  /\ sResult = <<>>
  /\ tData = <<>>
  /\ tCall = NoTableCall
  /\ tResult = NoTable
  /\ wParts = <<>>
  /\ wCall = NoWrapCall
  /\ wpc = "build"
  /\ wLine = 0
  /\ wOffset = 0
  /\ wFirst = TRUE
  /\ wResult = <<>>
  /\ vItems = <<>>
  /\ vCall = NoValueCall
  /\ vResult = <<>>
  /\ timers = [k \in {} |-> 0]
  /\ counters = [k \in {} |-> 0]
  /\ now = 0
  /\ lCalls = <<>>
  /\ mProcs = <<>>
  /\ mOut = <<>>
  /\ groupIndentLevel = 0
  /\ gCalls = <<>>

SpecText == InitText /\ [][TextNext]_vars

----------------------------------------------------------------------------
(***************************************************************************)
(* Properties of the text metrics.                                         *)
(***************************************************************************)
\* C6: for 0 <= i <= j <= visualLength(s), stripping the slice of s at (i, j)
\* gives the visible characters i..j-1 of s, in order.
C6_StripSliceRoundTrip ==
  (/\ sCall.fn = "sliceWithAnsi"
   /\ 0 <= sCall.start
   /\ sCall.start <= sCall.end
   /\ sCall.end <= visualLength(sText))
    => stripAnsi(sResult) = JsSlice(stripAnsi(sText), sCall.start, sCall.end)

\* a proper slice out of the middle of a string that carries control sequences
C6_Witness ==
  /\ sCall.fn = "sliceWithAnsi"
  /\ 0 < sCall.start
  /\ sCall.start < sCall.end
  /\ sCall.end <= visualLength(sText)
  /\ visualLength(sText) < Len(sText)
  /\ Len(sResult) > sCall.end - sCall.start

\* C16: sliceWithAnsi returns the empty string, without visible characters and
\* without control sequences, for every zero-width slice (start = end) and for
\* every start beyond the stripped length of the text.
C16_EmptySliceIsEmpty ==
  (/\ sCall.fn = "sliceWithAnsi"
   /\ \/ sCall.end = sCall.start
      \/ sCall.start > Len(stripAnsi(sText)))
    => sResult = <<>>

\* the control sequence in force at the end of text: the last one it holds,
\* nothing after a reset or when there is none
StyleAtEnd(text) ==
  LET RECURSIVE Scan(_, _)
      Scan(i, last) ==
        IF i > Len(text) THEN last
        ELSE IF AnsiMatchLen(text, i) > 0
          THEN LET c == SubSeq(text, i, i + AnsiMatchLen(text, i) - 1)
               IN Scan(i + AnsiMatchLen(text, i), IF c = RESET THEN <<>> ELSE c)
          ELSE Scan(i + 1, last)
  IN Scan(1, <<>>)
\* C23: a slice of a text whose styled spans are all closed keeps the closing
\* sequence of the span it ends in, so no style is left open after the slice
\* (red "Hello World" sliced at (0, 5) ends with the reset).
C23_SliceClosesItsStyle ==
  (/\ sCall.fn = "sliceWithAnsi"
   /\ StyleAtEnd(sText) = <<>>)
    => StyleAtEnd(sResult) = <<>>

----------------------------------------------------------------------------
(***************************************************************************)
(* Part 3.  Tables: createTable and createCard.  Text is a sequence of     *)
(* one-character strings; a box-drawing character, the ellipsis and the    *)
(* escape character are one element each.                                  *)
(***************************************************************************)
MaxRecords == 2
NumKeys == 7
MaxTermWidth == 64

DEFAULT_TERMINAL_WIDTH == 80
MAX_BROWSER_WIDTH == 200
SMALL_SCREEN_THRESHOLD == 60
MIN_READABLE_COL_WIDTH == 10
MAX_GRID_COLUMNS == 6
MIN_COL_WIDTH == 8
MAX_CARD_WIDTH == 60
SINGLE_LINE_LIMIT == 60

Chars(str) == [i \in 1..Len(str) |-> SubSeq(str, i, i)]
Repeat(ch, n) == [i \in 1..n |-> ch]
Max2(a, b) == IF a >= b THEN a ELSE b
Min2(a, b) == IF a <= b THEN a ELSE b
SumSeq(ws) ==
  LET RECURSIVE Sum(_)
      Sum(k) == IF k = 0 THEN 0 ELSE ws[k] + Sum(k - 1)
  IN Sum(Len(ws))
\* parts.join(sep)
Join(parts, sep) ==
  LET RECURSIVE J(_)
      J(k) == IF k > Len(parts) THEN <<>>
              ELSE IF k = Len(parts) THEN parts[k]
              ELSE parts[k] \o sep \o J(k + 1)
  IN J(1)
\* str.substring(0, end)
Substring0(str, end) == SubSeq(str, 1, Max2(0, Min2(end, Len(str))))

ELLIPSIS == <<"ELLIPSIS">>
BOX_H == "BOX_H"
BOX_V == <<"BOX_V">>
NL == <<"\n">>

\* the style functions: code(open, close) and rgb(r, g, b), under state.enabled
code(open, close, text, enabled) ==
  IF enabled
    THEN <<ESC, "[">> \o Chars(open) \o <<"m">> \o text
         \o <<ESC, "[">> \o Chars(close) \o <<"m">>
    ELSE text
rgb(r, g, b, text, enabled) ==
  IF enabled
    THEN <<ESC, "[">> \o Chars("38;2;") \o Chars(r) \o <<";">> \o Chars(g)
         \o <<";">> \o Chars(b) \o <<"m">> \o text \o RESET
    ELSE text
bold(text, en) == code("1", "22", text, en)
dim(text, en) == code("2", "22", text, en)
red(text, en) == code("31", "39", text, en)
green(text, en) == code("32", "39", text, en)
yellow(text, en) == code("33", "39", text, en)
cyan(text, en) == code("36", "39", text, en)
white(text, en) == code("37", "39", text, en)
gray(text, en) == code("90", "39", text, en)
\* hex("#f59e0b"): (0xf59e0b >> 16) & 255, (>> 8) & 255, & 255
amber(text, en) == rgb("245", "158", "11", text, en)
httpInfo(text, en) == rgb("175", "135", "255", text, en)
httpSuccess(text, en) == rgb("135", "255", "175", text, en)
httpRedirect(text, en) == rgb("135", "215", "255", text, en)
httpClientError(text, en) == rgb("255", "215", "135", text, en)
httpServerError(text, en) == rgb("255", "175", "215", text, en)
httpSafe(text, en) == rgb("135", "255", "175", text, en)
httpMutation(text, en) == rgb("255", "215", "135", text, en)
httpDelete(text, en) == rgb("255", "175", "215", text, en)

\* A value handed to the table: a tree, [kind, text, n, keys, items].  text is
\* String(value) for a primitive, n the numeric value of a number.
Val(kind, text, n, keys, items) ==
  [kind |-> kind, text |-> text, n |-> n, keys |-> keys, items |-> items]
VNull == Val("null", Chars("null"), 0, <<>>, <<>>)
VUndefined == Val("undefined", Chars("undefined"), 0, <<>>, <<>>)
VBool(b) == Val("boolean", IF b THEN Chars("true") ELSE Chars("false"), 0, <<>>, <<>>)
VNum(text, n) == Val("number", Chars(text), n, <<>>, <<>>)
VStr(text) == Val("string", text, 0, <<>>, <<>>)
VArray(items) == Val("array", <<>>, 0, <<>>, items)
VObject(keys, items) == Val("object", <<>>, 0, keys, items)

IsComposite(v) == v.kind \in CompositeKinds
HttpVerbs == {Chars("GET"), Chars("POST"), Chars("PUT"), Chars("PATCH"),
              Chars("DELETE"), Chars("HEAD"), Chars("OPTIONS")}
INDENT == <<" ", " ">>
Indent(depth) == Flatten([k \in 1..depth |-> INDENT])

\* format(value, {depth, maxDepth, compact}) as text, on a tree (no value is
\* met twice, so opts.seen never answers true)
RECURSIVE formatText(_, _, _, _, _)
formatText(v, depth, maxDepth, compact, en) ==
  LET sub == [k \in 1..Len(v.items) |->
                formatText(v.items[k], depth + 1, maxDepth, compact, en)]
      singleLine == Chars("[ ") \o Join(sub, Chars(", ")) \o Chars(" ]")
      nested == Indent(depth + 1)
  IN CASE v.kind = "null" -> bold(gray(Chars("null"), en), en)
       [] v.kind = "undefined" ->
            IF compact THEN Chars("-") ELSE dim(gray(Chars("undefined"), en), en)
       [] v.kind = "boolean" ->
            IF v.text = Chars("true") THEN yellow(v.text, en) ELSE red(v.text, en)
       [] v.kind = "number" ->
            IF v.n >= 100 /\ v.n < 200 THEN httpInfo(v.text, en)
            ELSE IF v.n >= 200 /\ v.n < 300 THEN httpSuccess(v.text, en)
            ELSE IF v.n >= 300 /\ v.n < 400 THEN httpRedirect(v.text, en)
            ELSE IF v.n >= 400 /\ v.n < 500 THEN httpClientError(v.text, en)
            ELSE IF v.n >= 500 /\ v.n < 600 THEN httpServerError(v.text, en)
            ELSE amber(v.text, en)
       [] v.kind = "string" ->
            IF v.text \in HttpVerbs
              THEN IF v.text \in {Chars("GET"), Chars("HEAD"), Chars("OPTIONS")}
                     THEN httpSafe(v.text, en)
                   ELSE IF v.text = Chars("DELETE") THEN httpDelete(v.text, en)
                   ELSE httpMutation(v.text, en)
            ELSE IF compact THEN green(v.text, en)
            ELSE green(<<"\"">> \o v.text \o <<"\"">>, en)
       [] IsComposite(v) /\ depth >= maxDepth ->
            dim(cyan(Chars("[Object]"), en), en)
       [] v.kind = "array" /\ depth < maxDepth ->
            IF Len(v.items) = 0 THEN Chars("[]")
            ELSE IF Len(singleLine) < SINGLE_LINE_LIMIT THEN singleLine
            ELSE Chars("[") \o NL
                 \o Join([k \in 1..Len(sub) |-> nested \o sub[k]], <<",">> \o NL)
                 \o NL \o Indent(depth) \o Chars("]")
       [] v.kind = "object" /\ depth < maxDepth ->
            IF Len(v.keys) = 0 THEN Chars("{}")
            ELSE Chars("{") \o NL
                 \o Join([k \in 1..Len(sub) |->
                            nested \o white(v.keys[k], en) \o Chars(": ") \o sub[k]],
                         <<",">> \o NL)
                 \o NL \o Indent(depth) \o Chars("}")

\* the property names the records of the model use, in insertion order
KeyNames == <<Chars("id"), Chars("firstName"), Chars("a_very_long_header"),
              Chars("d"), Chars("e"), Chars("f"), Chars("g"), Chars("h"),
              Chars("i")>>
VALUE_KEY == Chars("value")

\* rows = data.map(d => typeof d === "object" && d !== null ? d : {value: d})
RowKeys(d) ==
  IF d.isRecord THEN [j \in 1..Len(d.vals) |-> KeyNames[d.start + j - 1]]
  ELSE <<VALUE_KEY>>
\* row[key]: undefined when the row has no such property
RowGet(d, key) ==
  LET ks == RowKeys(d)
  IN IF \E j \in 1..Len(ks) : ks[j] = key
       THEN d.vals[CHOOSE j \in 1..Len(ks) : ks[j] = key]
       ELSE VUndefined
\* Array.from(new Set(rows.flatMap(r => Object.keys(r))))
Headers(data) ==
  LET all == Flatten([i \in 1..Len(data) |-> RowKeys(data[i])])
      RECURSIVE Dedup(_, _)
      Dedup(k, acc) ==
        IF k > Len(all) THEN acc
        ELSE IF \E j \in 1..Len(acc) : acc[j] = all[k] THEN Dedup(k + 1, acc)
        ELSE Dedup(k + 1, Append(acc, all[k]))
  IN Dedup(1, <<>>)
\* an entry of stringMatrix
CellString(v) ==
  IF IsComposite(v) THEN Chars("[Obj]")
  ELSE IF v.kind = "undefined" THEN Chars("-")
  ELSE v.text
StringMatrix(data) ==
  LET hs == Headers(data)
  IN [r \in 1..Len(data) |->
        [c \in 1..Len(hs) |-> CellString(RowGet(data[r], hs[c]))]]
\* colWidths measured without the 2 characters of padding
NaturalWidthsUnpadded(data) ==
  LET hs == Headers(data)
      sm == StringMatrix(data)
      RECURSIVE MaxLen(_, _)
      MaxLen(c, r) == IF r = 0 THEN Len(hs[c])
                      ELSE Max2(Len(sm[r][c]), MaxLen(c, r - 1))
  IN [c \in 1..Len(hs) |-> MaxLen(c, Len(data))]
\* colWidths before any adjustment: longest of header and cells, plus 2
NaturalWidths(data) ==
  LET hs == Headers(data)
      sm == StringMatrix(data)
      RECURSIVE MaxLen(_, _)
      MaxLen(c, r) == IF r = 0 THEN Len(hs[c])
                      ELSE Max2(Len(sm[r][c]), MaxLen(c, r - 1))
  IN [c \in 1..Len(hs) |-> MaxLen(c, Len(data)) + 2]
TotalWidth(ws) == SumSeq(ws) + (Len(ws) + 1)

RECURSIVE GCD(_, _)
GCD(a, b) == IF b = 0 THEN a ELSE GCD(b, a % b)
\* The (w, a/b) in lowest terms, w <= 40 and a, b <= 100, for which the double
\* w * (a / b) falls just below the integer w*a/b.
FloatFloorDeficit ==
  {<<7, 61, 7>>, <<11, 15, 11>>, <<11, 30, 11>>, <<11, 49, 11>>,
   <<11, 60, 11>>, <<11, 98, 11>>, <<13, 15, 13>>, <<13, 30, 13>>,
   <<13, 60, 13>>, <<13, 63, 13>>, <<14, 61, 7>>, <<14, 61, 14>>,
   <<15, 41, 5>>, <<15, 49, 3>>, <<15, 82, 5>>, <<15, 98, 3>>,
   <<19, 53, 19>>, <<19, 87, 19>>, <<21, 17, 7>>, <<21, 34, 7>>,
   <<21, 41, 7>>, <<21, 59, 21>>, <<21, 61, 7>>, <<21, 68, 7>>,
   <<21, 75, 7>>, <<21, 82, 7>>, <<21, 97, 21>>, <<22, 15, 11>>,
   <<22, 15, 22>>, <<22, 30, 11>>, <<22, 49, 11>>, <<22, 49, 22>>,
   <<22, 60, 11>>, <<22, 98, 11>>, <<23, 13, 23>>, <<23, 26, 23>>,
   <<23, 52, 23>>, <<23, 61, 23>>, <<23, 99, 23>>, <<25, 23, 5>>,
   <<25, 29, 25>>, <<25, 41, 5>>, <<25, 46, 5>>, <<25, 51, 5>>,
   <<25, 57, 25>>, <<25, 58, 25>>, <<25, 82, 5>>, <<25, 87, 5>>,
   <<25, 92, 5>>, <<25, 97, 5>>, <<26, 15, 13>>, <<26, 15, 26>>,
   <<26, 30, 13>>, <<26, 60, 13>>, <<26, 63, 13>>, <<26, 63, 26>>,
   <<27, 13, 3>>, <<27, 26, 3>>, <<27, 37, 9>>, <<27, 49, 3>>, <<27, 52, 3>>,
   <<27, 55, 3>>, <<27, 61, 27>>, <<27, 74, 9>>, <<27, 83, 9>>,
   <<27, 98, 3>>, <<28, 61, 7>>, <<28, 61, 14>>, <<28, 61, 28>>,
   <<29, 31, 29>>, <<29, 59, 29>>, <<29, 62, 29>>, <<30, 41, 5>>,
   <<30, 41, 10>>, <<30, 49, 3>>, <<30, 49, 6>>, <<30, 82, 5>>,
   <<30, 98, 3>>, <<35, 47, 35>>, <<35, 94, 35>>, <<37, 39, 37>>,
   <<37, 43, 37>>, <<37, 78, 37>>, <<37, 86, 37>>, <<38, 53, 19>>,
   <<38, 53, 38>>, <<38, 87, 19>>, <<38, 87, 38>>, <<39, 15, 13>>,
   <<39, 30, 13>>, <<39, 31, 39>>, <<39, 60, 13>>, <<39, 62, 39>>,
   <<39, 73, 13>>, <<39, 85, 39>>, <<39, 95, 39>>}
\* Math.floor(w * (a / b)) in double arithmetic, for w <= 40, a <= 100 and
\* 0 < b <= 100
ScaledFloor(w, a, b) ==
  LET g == IF a > 0 THEN GCD(a, b) ELSE 1
  IN IF a > 0 /\ <<w, a \div g, b \div g>> \in FloatFloorDeficit
       THEN ((w * a) \div b) - 1
       ELSE (w * a) \div b

\* TOO_MANY_COLUMNS
TooManyColumns(hs) == Len(hs) > MAX_GRID_COLUMNS
\* wouldNeedHeavyTruncation, with maxTableWidth = terminalWidth - 2
WouldNeedHeavyTruncation(ws, tw) ==
  /\ TotalWidth(ws) > tw - 2
  /\ \E c \in 1..Len(ws) :
       ScaledFloor(ws[c], tw - 2, TotalWidth(ws)) < MIN_READABLE_COL_WIDTH
CardMode(data, tw) ==
  \/ TooManyColumns(Headers(data))
  \/ WouldNeedHeavyTruncation(NaturalWidths(data), tw)

\* the shrink branch: scale by availableWidth / sum of widths, floor at 8
ShrinkWidths(ws, tw) ==
  LET availableWidth == (tw - 2) - (Len(ws) + 1)
  IN [c \in 1..Len(ws) |->
        Max2(MIN_COL_WIDTH, ScaledFloor(ws[c], availableWidth, SumSeq(ws)))]
\* what the small-screen branch has left to hand out after scaling
ExpandRemainder(ws, tw) ==
  LET targetContentWidth == Min2(tw - 4, MAX_CARD_WIDTH) - (Len(ws) - 1)
      scaled == [c \in 1..Len(ws) |->
                   ScaledFloor(ws[c], targetContentWidth, SumSeq(ws))]
  IN targetContentWidth - SumSeq(scaled)
\* the small-screen branch without the hand-out of the remainder
ExpandWidthsNoRemainder(ws, tw) ==
  LET targetInnerWidth == Min2(tw - 4, MAX_CARD_WIDTH)
      currentContentWidth == SumSeq(ws)
      currentInnerWidth == currentContentWidth + (Len(ws) - 1)
      targetContentWidth == targetInnerWidth - (Len(ws) - 1)
      scaled == [c \in 1..Len(ws) |->
                   ScaledFloor(ws[c], targetContentWidth, currentContentWidth)]
  IN IF currentInnerWidth < targetInnerWidth THEN scaled ELSE ws
\* the small-screen branch: grow towards the width a card would have
ExpandWidths(ws, tw) ==
  LET targetInnerWidth == Min2(tw - 4, MAX_CARD_WIDTH)
      currentContentWidth == SumSeq(ws)
      currentInnerWidth == currentContentWidth + (Len(ws) - 1)
      targetContentWidth == targetInnerWidth - (Len(ws) - 1)
      scaled == [c \in 1..Len(ws) |->
                   ScaledFloor(ws[c], targetContentWidth, currentContentWidth)]
      remainder == targetContentWidth - SumSeq(scaled)
  IN IF currentInnerWidth < targetInnerWidth
       THEN [c \in 1..Len(ws) |->
               IF c <= remainder THEN scaled[c] + 1 ELSE scaled[c]]
       ELSE ws
Shrinks(ws, tw) == TotalWidth(ws) > tw - 2
Expands(ws, tw) ==
  /\ ~Shrinks(ws, tw)
  /\ tw < SMALL_SCREEN_THRESHOLD
  /\ SumSeq(ws) + (Len(ws) - 1) < Min2(tw - 4, MAX_CARD_WIDTH)
\* colWidths as the drawing functions see them
ColWidths(ws, tw) ==
  IF Shrinks(ws, tw) THEN ShrinkWidths(ws, tw)
  ELSE IF tw < SMALL_SCREEN_THRESHOLD THEN ExpandWidths(ws, tw)
  ELSE ws

\* drawLine(type): one run of the horizontal character per column.  A line of
\* the grid is kept as [type, cols], cols being what stands between the bars.
drawLine(type, cw) ==
  [type |-> type, cols |-> [c \in 1..Len(cw) |-> Repeat(BOX_H, cw[c])]]

\* drawRow(headers, t => bold(white(t))): what one header cell becomes
HeaderDisplay(cell, w) ==
  IF Len(cell) > w - 2 THEN Substring0(cell, (w - 2) - 1) \o ELLIPSIS ELSE cell
HeaderPadding(cell, w) == (w - Len(HeaderDisplay(cell, w))) - 1
HeaderCell(cell, w, en) ==
  bold(white(<<" ">> \o HeaderDisplay(cell, w)
             \o Repeat(" ", HeaderPadding(cell, w)), en), en)

\* format(originalVal, {depth: 0, maxDepth: 1, compact: true})
CellFormat(v, en) == formatText(v, 0, 1, TRUE, en)
Truncated(cleanText, w) == Substring0(cleanText, (w - 2) - 1) \o ELLIPSIS
\* the length the data row takes the displayed cell to have
CleanLen(v, w) ==
  IF Len(CellString(v)) > w - 2 THEN Len(Truncated(CellString(v), w))
  ELSE Len(CellString(v))
DisplayCell(v, w, en) ==
  IF /\ Len(CellString(v)) > w - 2
     /\ Len(Truncated(CellString(v), w)) < Len(CellString(v))
    THEN dim(Truncated(CellString(v), w), en)
    ELSE CellFormat(v, en)
DataPadding(v, w) == (w - CleanLen(v, w)) - 1
DataCell(v, w, en) ==
  <<" ">> \o DisplayCell(v, w, en) \o Repeat(" ", DataPadding(v, w))

\* the string createTable pushes for a line: a border is drawn gray from its
\* corner to corner, a row has a gray bar around every cell
LineText(line, en) ==
  IF line.type \in {"top", "middle", "bottom"}
    THEN gray(<<line.type \o "_left">>
              \o Join(line.cols, <<line.type \o "_mid">>)
              \o <<line.type \o "_right">>, en)
    ELSE gray(BOX_V, en) \o Join(line.cols, gray(BOX_V, en)) \o gray(BOX_V, en)

\* " ".repeat(n) with n < 0 raises a RangeError
GridThrows(data, cw) ==
  LET hs == Headers(data)
  IN \/ \E c \in 1..Len(hs) : HeaderPadding(hs[c], cw[c]) < 0
     \/ \E r \in 1..Len(data), c \in 1..Len(hs) :
          DataPadding(RowGet(data[r], hs[c]), cw[c]) < 0
\* lines of the grid, top to bottom
GridLines(data, cw, en) ==
  LET hs == Headers(data)
  IN <<drawLine("top", cw),
       [type |-> "header",
        cols |-> [c \in 1..Len(hs) |-> HeaderCell(hs[c], cw[c], en)]],
       drawLine("middle", cw)>>
     \o [r \in 1..Len(data) |->
           [type |-> "row",
            cols |-> [c \in 1..Len(hs) |->
                        DataCell(RowGet(data[r], hs[c]), cw[c], en)]]]
     \o <<drawLine("bottom", cw)>>

\* String(n) for a natural number
RECURSIVE NumberString(_)
NumberString(n) ==
  IF n < 10 THEN <<Chars("0123456789")[n + 1]>>
  ELSE NumberString(n \div 10) \o <<Chars("0123456789")[(n % 10) + 1]>>

CardWidth(tw) == Min2(tw - 4, MAX_CARD_WIDTH)
CardTitle(index) == Chars(" Record #") \o NumberString(index + 1) \o <<" ">>
\* one "key: value" line of a card
CardEntry(key, v, tw, en) ==
  LET display == bold(white(key, en), en) \o dim(Chars(": "), en) \o CellFormat(v, en)
      cleanLength == Len(key) + 2 + Len(CellString(v))
      padding == Repeat(" ", Max2(0, (CardWidth(tw) - 2) - cleanLength))
  IN gray(BOX_V, en) \o <<" ">> \o display \o padding \o <<" ">> \o gray(BOX_V, en)
\* createCard(row, index, terminalWidth): the lines of the card
createCard(d, index, tw, en) ==
  LET title == CardTitle(index)
      titleLine == Repeat(BOX_H, Max2(0, CardWidth(tw) - Len(title)))
      ks == RowKeys(d)
  IN <<gray(<<"top_left">> \o title \o titleLine \o <<"top_right">>, en)>>
     \o [j \in 1..Len(ks) |-> CardEntry(ks[j], d.vals[j], tw, en)]
     \o <<gray(<<"bottom_left">> \o Repeat(BOX_H, CardWidth(tw))
               \o <<"bottom_right">>, en)>>
\* "─".repeat(cardWidth) with cardWidth < 0 raises a RangeError
CardThrows(tw) == CardWidth(tw) < 0

\* createTable(data) on a display tw wide, with state.enabled = en
createTable(data, tw, en) ==
  LET hs == Headers(data)
      ws == NaturalWidths(data)
      cw == ColWidths(ws, tw)
      base == [status |-> "returned", mode |-> "empty", headers |-> hs,
               natural |-> ws, colWidths |-> ws, lines |-> <<>>, cards |-> <<>>]
  IN IF Len(data) = 0
       THEN [base EXCEPT !.lines =
               <<[type |-> "empty",
                  cols |-> <<dim(gray(Chars(" (Empty Table) "), en), en)>>]>>]
     ELSE IF CardMode(data, tw)
       THEN IF CardThrows(tw)
              THEN [base EXCEPT !.status = "threw", !.mode = "card"]
              ELSE [base EXCEPT !.mode = "card",
                      !.cards = [r \in 1..Len(data) |->
                                   createCard(data[r], r - 1, tw, en)]]
     ELSE IF GridThrows(data, cw)
       THEN [base EXCEPT !.status = "threw", !.mode = "grid", !.colWidths = cw]
     ELSE [base EXCEPT !.mode = "grid", !.colWidths = cw,
             !.lines = GridLines(data, cw, en)]

\* the values the cells of the model are drawn from
DefaultValue == VNum("1", 1)
PrimitiveValues ==
  {DefaultValue, VBool(FALSE), VNull, VUndefined,
   VStr(Repeat("x", 9)), VStr(Repeat("x", 18)), VStr(Repeat("x", 30)),
   VStr(red(Chars("down"), TRUE))}
CompositeValues ==
  {VArray(<<DefaultValue, DefaultValue>>),
   VObject(<<Chars("a")>>, <<DefaultValue>>)}
CellValues == PrimitiveValues \cup CompositeValues
TermWidths == (1..MaxTermWidth) \cup {DEFAULT_TERMINAL_WIDTH, MAX_BROWSER_WIDTH}

\* first property name no record of the data has used yet
NextKey ==
  LET RECURSIVE Hi(_)
      Hi(k) == IF k = 0 THEN 0
               ELSE IF tData[k].isRecord
                 THEN Max2(tData[k].start + Len(tData[k].vals) - 1, Hi(k - 1))
               ELSE Hi(k - 1)
  IN Hi(Len(tData)) + 1

\* The arrays of the model: bare primitives only, or records only.  The first
\* record has the varied cell, the second may bring properties of its own, and
\* the ones after it repeat the properties of the first.

\* the caller starts a record whose properties no record before it has
AddRecord ==
  /\ ~tCall.called
  /\ Len(tData) < MaxRecords
  /\ IF Len(tData) = 0 THEN TRUE ELSE Len(tData) = 1 /\ tData[1].isRecord
  /\ NextKey <= NumKeys
  /\ tData' = Append(tData, [isRecord |-> TRUE, start |-> NextKey, vals |-> <<>>])
  /\ UNCHANGED <<tCall, tResult>>
  /\ UNCHANGED notTable

\* the caller adds a record with the properties of the first one
AddSameKeys ==
  /\ ~tCall.called
  /\ Len(tData) > 0
  /\ Len(tData) < MaxRecords
  /\ tData[1].isRecord
  /\ tData' = Append(tData, [isRecord |-> TRUE, start |-> 1,
                             vals |-> [j \in 1..Len(tData[1].vals) |-> DefaultValue]])
  /\ UNCHANGED <<tCall, tResult>>
  /\ UNCHANGED notTable

\* the caller gives the newest record its next property
AddField(v) ==
  /\ ~tCall.called
  /\ Len(tData) > 0
  /\ tData[Len(tData)].isRecord
  /\ IF Len(tData) = 1 THEN TRUE ELSE tData[Len(tData)].start > 1
  /\ tData[Len(tData)].start + Len(tData[Len(tData)].vals) <= NumKeys
  /\ IF v = DefaultValue THEN TRUE
     ELSE Len(tData) = 1 /\ Len(tData[1].vals) = 0
  /\ tData' = [tData EXCEPT ![Len(tData)].vals = Append(@, v)]
  /\ UNCHANGED <<tCall, tResult>>
  /\ UNCHANGED notTable

\* the caller puts a bare primitive into the array
AddElement(v) ==
  /\ ~tCall.called
  /\ Len(tData) < MaxRecords
  /\ IF Len(tData) = 0 THEN TRUE
     ELSE ~tData[Len(tData)].isRecord /\ v = DefaultValue
  /\ tData' = Append(tData, [isRecord |-> FALSE, start |-> 0, vals |-> <<v>>])
  /\ UNCHANGED <<tCall, tResult>>
  /\ UNCHANGED notTable

\* createTable(data) with getTerminalWidth() = tw
TableCall(tw, en) ==
  /\ ~tCall.called
  /\ tCall' = [called |-> TRUE, width |-> tw, enabled |-> en]
  /\ tResult' = createTable(tData, tw, en)
  /\ UNCHANGED tData
  /\ UNCHANGED notTable

TableNext ==
  \/ AddRecord
  \/ AddSameKeys
  \/ \E v \in CellValues : AddField(v)
  \/ \E v \in PrimitiveValues : AddElement(v)
  \/ \E tw \in TermWidths, en \in BOOLEAN : TableCall(tw, en)

\* nothing is being formatted or measured; the array is still empty
InitTable ==
  /\ heap = <<>>
  /\ pc = "build"
  /\ maxDepthOpt = 0
  /\ stack = <<>>
  /\ seen = {}
  /\ out = <<>>
  /\ trace = <<>>
  /\ prevOut = NoOutcome
  /\ sParts = <<>>
  /\ sCall = NoCall
  /\ sResult = <<>>
  /\ tData = <<>>
  /\ tCall = NoTableCall
  /\ tResult = NoTable
  /\ wParts = <<>>
  /\ wCall = NoWrapCall
  /\ wpc = "build"
  /\ wLine = 0
  /\ wOffset = 0
  /\ wFirst = TRUE
  /\ wResult = <<>>
  /\ vItems = <<>>
  /\ vCall = NoValueCall
  /\ vResult = <<>>
  /\ timers = [k \in {} |-> 0]
  /\ counters = [k \in {} |-> 0]
  /\ now = 0
  /\ lCalls = <<>>
  /\ mProcs = <<>>
  /\ mOut = <<>>
  /\ groupIndentLevel = 0
  /\ gCalls = <<>>

SpecTable == InitTable /\ [][TableNext]_vars

----------------------------------------------------------------------------
(***************************************************************************)
(* Properties of the tables.                                               *)
(***************************************************************************)
Called == tCall.called /\ Len(tData) > 0
IsGrid == Called /\ tResult.status = "returned" /\ tResult.mode = "grid"
IsCard == Called /\ tResult.status = "returned" /\ tResult.mode = "card"
\* every cell of the array is a primitive
AllPrimitive ==
  \A r \in 1..Len(tData) : \A j \in 1..Len(tData[r].vals) :
    ~IsComposite(tData[r].vals[j])
\* the cells of the array that hold a composite, as <<row, column>>
CompositeCells ==
  {rc \in (1..Len(tData)) \X (1..Len(tResult.headers)) :
     IsComposite(RowGet(tData[rc[1]], tResult.headers[rc[2]]))}
\* what a grid row shows in a column, without the blank before and after
Shown(r, c) ==
  LET cell == stripAnsi(tResult.lines[3 + r].cols[c])
      RECURSIVE Trim(_)
      Trim(t) == IF t /= <<>> /\ t[Len(t)] = " " THEN Trim(SubSeq(t, 1, Len(t) - 1))
                 ELSE t
  IN Trim(SubSeq(cell, 2, Len(cell)))

\* C7: an array of records with seven or more distinct property names comes
\* out as cards, one card per record, whatever the display width.
C7_SevenKeysRenderAsCards ==
  (Called /\ Len(Headers(tData)) >= 7)
    => (IsCard /\ Len(tResult.cards) = Len(tData))

\* C8: in a grid whose cells are all primitives, every line gives column c
\* exactly colWidths[c] visible characters.
C8_EveryLineKeepsColumnWidths ==
  (IsGrid /\ AllPrimitive)
    => \A l \in 1..Len(tResult.lines) : \A c \in 1..Len(tResult.colWidths) :
         visualLength(tResult.lines[l].cols[c]) = tResult.colWidths[c]

\* C9: a grid cell holding an array or an object shows the placeholder
\* "[Obj]", the text its column was measured with.
C9_CompositeCellShowsPlaceholder ==
  IsGrid => \A rc \in CompositeCells : Shown(rc[1], rc[2]) = Chars("[Obj]")

\* C10: a grid whose columns were shrunk to fit has no column narrower than
\* the minimum readable width.
C10_ShrunkGridKeepsReadableWidth ==
  (IsGrid /\ Shrinks(tResult.natural, tCall.width))
    => \A c \in 1..Len(tResult.colWidths) :
         tResult.colWidths[c] >= MIN_READABLE_COL_WIDTH

\* C11: createTable returns a string, without throwing, for every array and
\* every positive display width.
C11_TableAlwaysReturns ==
  tCall.called => tResult.status = "returned"

\* C17: in a grid whose natural width fits the display (no shrink-to-fit),
\* every column is at least as wide as its header plus 2 and as the longest
\* cell text of the column plus 2; small-screen expansion never takes a column
\* below its natural width.
C17_UnshrunkColumnsHoldContent ==
  (IsGrid /\ ~Shrinks(tResult.natural, tCall.width))
    => \A c \in 1..Len(tResult.colWidths) :
         /\ tResult.colWidths[c] >= Len(tResult.headers[c]) + 2
         /\ \A r \in 1..Len(tData) :
              tResult.colWidths[c] >= Len(StringMatrix(tData)[r][c]) + 2
         /\ tResult.colWidths[c] >= tResult.natural[c]
\* a grid expanded on a small screen, with a cell longer than its header
C17_Witness ==
  /\ IsGrid
  /\ Expands(tResult.natural, tCall.width)
  /\ \E c \in 1..Len(tResult.colWidths) :
       /\ tResult.colWidths[c] > tResult.natural[c]
       /\ \E r \in 1..Len(tData) :
            Len(StringMatrix(tData)[r][c]) > Len(tResult.headers[c])

\* C24: in Card mode every line of every card, the title line, each
\* "key: value" line and the bottom border, is min(displayWidth - 4, 60) + 2
\* visible characters wide, also for long values and for composite values.
C24_CardLinesHaveCardWidth ==
  IsCard =>
    \A r \in 1..Len(tResult.cards) : \A l \in 1..Len(tResult.cards[r]) :
      visualLength(tResult.cards[r][l]) = Min2(tCall.width - 4, MAX_CARD_WIDTH) + 2

\* a grid of at least one column that went through the small-screen expansion
Expanded ==
  /\ IsGrid
  /\ Len(tResult.colWidths) >= 1
  /\ Expands(tResult.natural, tCall.width)
\* the expanded widths plus the inner separators
ExpandedInnerWidth == SumSeq(tResult.colWidths) + (Len(tResult.colWidths) - 1)
\* C25 as stated: the expanded widths plus the inner separators sum to
\* min(displayWidth - 4, 60), the remainder of the rounding being smaller than
\* the number of columns.
C25_RemainderBelowColumns ==
  Expanded =>
    /\ ExpandedInnerWidth = Min2(tCall.width - 4, MAX_CARD_WIDTH)
    /\ ExpandRemainder(tResult.natural, tCall.width) < Len(tResult.colWidths)
\* C25, amended: with at least one column, the expanded widths plus the inner
\* separators sum to min(displayWidth - 4, 60); the remainder of the rounding
\* is at most the number of columns and goes, one unit each, to the
\* lowest-indexed columns.
C25_ExpandedWidthsSumToTarget ==
  Expanded =>
    LET remainder == ExpandRemainder(tResult.natural, tCall.width)
        n == Len(tResult.colWidths)
    IN /\ ExpandedInnerWidth = Min2(tCall.width - 4, MAX_CARD_WIDTH)
       /\ remainder >= 0 /\ remainder <= n
       /\ \A c \in 1..n : \A d \in 1..n :
            (c <= remainder /\ d > remainder /\ tResult.natural[c] = tResult.natural[d])
              => tResult.colWidths[c] = tResult.colWidths[d] + 1
\* two columns were expanded and the first one got the unit left over
C25_Witness ==
  /\ Expanded
  /\ Len(tResult.colWidths) = 2
  /\ ExpandRemainder(tResult.natural, tCall.width) = 1
  /\ ExpandedInnerWidth = Min2(tCall.width - 4, MAX_CARD_WIDTH)

\* C26: every line of a grid that has columns, borders and rows alike, is at
\* most displayWidth - 2 visible characters wide, also when shrink-to-fit
\* raised columns to the floor of 8.
C26_GridFitsDisplay ==
  (IsGrid /\ Len(tResult.colWidths) >= 1) =>
    \A l \in 1..Len(tResult.lines) :
      visualLength(LineText(tResult.lines[l], tCall.enabled)) <= tCall.width - 2

----------------------------------------------------------------------------
(***************************************************************************)
(* Part 4.  wrapText: the loop over the logical lines and, for a line that *)
(* does not fit, the chunking loop, one iteration per step.                *)
(***************************************************************************)
MaxWrapPieces == 4
MaxWrapWidth == 7

WRAP_INDENT == Chars("    ")
WrapPieces == {Chars("aaa"), Chars("a "), Chars("  "), Chars("at "), NL,
               RED, RESET}

\* text.split("\n")
SplitLines(text) ==
  LET RECURSIVE Split(_, _, _)
      Split(k, cur, acc) ==
        IF k > Len(text) THEN Append(acc, cur)
        ELSE IF text[k] = "\n" THEN Split(k + 1, <<>>, Append(acc, cur))
        ELSE Split(k + 1, Append(cur, text[k]), acc)
  IN Split(1, <<>>, <<>>)
\* str.startsWith(prefix)
StartsWith(str, prefix) ==
  Len(str) >= Len(prefix) /\ SubSeq(str, 1, Len(prefix)) = prefix
\* the length of str.match(/^ */)[0]
LeadingSpaces(str) ==
  LET RECURSIVE Count(_)
      Count(k) == IF k <= Len(str) /\ str[k] = " " THEN Count(k + 1) ELSE k - 1
  IN Count(1)
\* str.trimStart()
TrimStart(str) == SubSeq(str, LeadingSpaces(str) + 1, Len(str))
\* str.lastIndexOf(" ", fromIndex), positions counted from 0
LastSpaceIndex(str, fromIndex) ==
  LET top == Min2(Max2(fromIndex, 0), Len(str) - 1)
      RECURSIVE Back(_)
      Back(k) == IF k < 0 THEN -1
                 ELSE IF str[k + 1] = " " THEN k ELSE Back(k - 1)
  IN Back(top)
\* getActiveAnsiAt(text, visualPosition)
getActiveAnsiAt(text, visualPosition) ==
  LET RECURSIVE Loop(_, _, _)
      Loop(i, visualIndex, lastAnsi) ==
        IF ~(i <= Len(text) /\ visualIndex <= visualPosition) THEN lastAnsi
        ELSE IF AnsiMatchLen(text, i) > 0
          THEN LET ansiCode == SubSeq(text, i, i + AnsiMatchLen(text, i) - 1)
               IN Loop(i + AnsiMatchLen(text, i), visualIndex,
                       IF ansiCode = RESET THEN <<>> ELSE ansiCode)
          ELSE Loop(i + 1, visualIndex + 1, lastAnsi)
  IN Loop(1, 0, <<>>)

wText == Flatten(wParts)
\* existingLines
wLines == SplitLines(wText)
\* some line, stripped, starts with two blanks
isObjectContent ==
  \E k \in 1..Len(wLines) : StartsWith(stripAnsi(wLines[k]), Chars("  "))
\* line and cleanLine of the iteration of the outer loop
CurLine == wLines[wLine + 1]
CleanLine == stripAnsi(CurLine)

\* prefix and width of an iteration of the chunking loop
ChunkPrefix ==
  IF wLine = 0 THEN (IF wFirst THEN <<>> ELSE WRAP_INDENT)
  ELSE IF ~isObjectContent THEN WRAP_INDENT
  ELSE IF wFirst THEN <<>>
  ELSE Repeat(" ", LeadingSpaces(CleanLine))
ChunkWidth == wCall.maxWidth - Len(ChunkPrefix)
\* where the iteration cuts: at the last blank if it lies in the last 40%
BreakPoint ==
  LET lastSpace == LastSpaceIndex(CleanLine, wOffset + ChunkWidth)
  IN IF lastSpace > wOffset /\ 10 * lastSpace >= 10 * wOffset + 6 * ChunkWidth
       THEN lastSpace
       ELSE wOffset + ChunkWidth
\* breakPoint after the blanks that follow it are skipped
SkipSpaces(breakPoint) ==
  LET RECURSIVE Skip(_)
      Skip(b) == IF b >= 0 /\ b < Len(CleanLine) /\ CleanLine[b + 1] = " "
                   THEN Skip(b + 1) ELSE b
  IN Skip(breakPoint)
\* re-open the style in force at the offset: done on the first line only
Recolor(chunk) ==
  IF ~wFirst /\ wLine = 0
       /\ ~StartsWith(TrimStart(stripAnsi(chunk)), Chars("at "))
    THEN getActiveAnsiAt(CurLine, wOffset) \o chunk
    ELSE chunk
Pushed(prefix, chunk) ==
  Append(wResult, [line |-> wLine, offset |-> wOffset, first |-> wFirst,
                   prefix |-> prefix, chunk |-> chunk])
\* the outer loop moves on to the next line, or wrapText returns
NextLine ==
  /\ wLine' = wLine + 1
  /\ wpc' = IF wLine + 1 < Len(wLines) THEN "line" ELSE "done"
  /\ wOffset' = 0
  /\ wFirst' = TRUE

\* a caller puts the text together
WrapAppend(piece) ==
  /\ wpc = "build"
  /\ Len(wParts) < MaxWrapPieces
  /\ wParts' = Append(wParts, piece)
  /\ UNCHANGED <<wCall, wpc, wLine, wOffset, wFirst, wResult>>
  /\ UNCHANGED notWrap

\* wrapText(text, maxWidth) is called
WrapCall(maxWidth) ==
  /\ wpc = "build"
  /\ wCall' = [called |-> TRUE, maxWidth |-> maxWidth]
  /\ wpc' = "line"
  /\ UNCHANGED <<wParts, wLine, wOffset, wFirst, wResult>>
  /\ UNCHANGED notWrap

\* a line that fits is pushed whole
WrapLineFits ==
  /\ wpc = "line"
  /\ Len(CleanLine) <= wCall.maxWidth
  /\ wResult' = Pushed(IF wLine = 0 \/ isObjectContent THEN <<>> ELSE WRAP_INDENT,
                       CurLine)
  /\ NextLine
  /\ UNCHANGED <<wParts, wCall>>
  /\ UNCHANGED notWrap

\* a line that does not fit enters the chunking loop
WrapLineSplit ==
  /\ wpc = "line"
  /\ Len(CleanLine) > wCall.maxWidth
  /\ wpc' = "chunk"
  /\ UNCHANGED <<wParts, wCall, wLine, wOffset, wFirst, wResult>>
  /\ UNCHANGED notWrap

\* while (offset < cleanLine.length) is false: the loop is left
WrapLoopExit ==
  /\ wpc = "chunk"
  /\ ~(wOffset < Len(CleanLine))
  /\ NextLine
  /\ UNCHANGED <<wParts, wCall, wResult>>
  /\ UNCHANGED notWrap

\* the rest of the line fits: it is pushed and the loop is left by break
WrapLastChunk ==
  /\ wpc = "chunk"
  /\ wOffset < Len(CleanLine)
  /\ Len(CleanLine) - wOffset <= ChunkWidth
  /\ wResult' = Pushed(ChunkPrefix,
                       Recolor(sliceRange(CurLine, wOffset, Len(CleanLine))))
  /\ NextLine
  /\ UNCHANGED <<wParts, wCall>>
  /\ UNCHANGED notWrap

\* One iteration that cuts a chunk off.  An iteration that leaves the offset
\* where it was, or moves it back, is repeated without end: the model stops
\* there, in "stuck".
WrapChunk ==
  /\ wpc = "chunk"
  /\ wOffset < Len(CleanLine)
  /\ Len(CleanLine) - wOffset > ChunkWidth
  /\ wResult' = Pushed(ChunkPrefix, Recolor(sliceRange(CurLine, wOffset, BreakPoint)))
  /\ wOffset' = SkipSpaces(BreakPoint)
  /\ wFirst' = FALSE
  /\ wpc' = IF SkipSpaces(BreakPoint) > wOffset THEN "chunk" ELSE "stuck"
  /\ UNCHANGED <<wParts, wCall, wLine>>
  /\ UNCHANGED notWrap

WrapNext ==
  \/ \E piece \in WrapPieces : WrapAppend(piece)
  \/ \E maxWidth \in 1..MaxWrapWidth : WrapCall(maxWidth)
  \/ WrapLineFits
  \/ WrapLineSplit
  \/ WrapLoopExit
  \/ WrapLastChunk
  \/ WrapChunk

\* nothing is being formatted, measured or tabulated; the text is still empty
InitWrap ==
  /\ heap = <<>>
  /\ pc = "build"
  /\ maxDepthOpt = 0
  /\ stack = <<>>
  /\ seen = {}
  /\ out = <<>>
  /\ trace = <<>>
  /\ prevOut = NoOutcome
  /\ sParts = <<>>
  /\ sCall = NoCall
  /\ sResult = <<>>
  /\ tData = <<>>
  /\ tCall = NoTableCall
  /\ tResult = NoTable
  /\ wParts = <<>>
  /\ wCall = NoWrapCall
  /\ wpc = "build"
  /\ wLine = 0
  /\ wOffset = 0
  /\ wFirst = TRUE
  /\ wResult = <<>>
  /\ vItems = <<>>
  /\ vCall = NoValueCall
  /\ vResult = <<>>
  /\ timers = [k \in {} |-> 0]
  /\ counters = [k \in {} |-> 0]
  /\ now = 0
  /\ lCalls = <<>>
  /\ mProcs = <<>>
  /\ mOut = <<>>
  /\ groupIndentLevel = 0
  /\ gCalls = <<>>

SpecWrap == InitWrap /\ [][WrapNext]_vars

----------------------------------------------------------------------------
(***************************************************************************)
(* Properties of wrapText.                                                 *)
(***************************************************************************)
\* the string wrapText pushed for an entry of result
Returned(e) == e.prefix \o e.chunk

\* C12: with maxWidth above the 4-character continuation indent, every line
\* wrapText produces has visual length at most maxWidth.
C12_LinesWithinMaxWidth ==
  (wCall.called /\ wCall.maxWidth > Len(WRAP_INDENT))
    => \A k \in 1..Len(wResult) :
         visualLength(Returned(wResult[k])) <= wCall.maxWidth

\* C13: for every maxWidth >= 1 every iteration of the chunking loop moves
\* the offset forward, so wrapText terminates.
C13_EveryIterationAdvances ==
  (wCall.called /\ wCall.maxWidth >= 1) => wpc # "stuck"

\* C18: a continuation chunk that is cut inside an open style span, and is not
\* a stack-frame line, starts with the style in force at the cut; on every
\* logical line (checked for budgets above the continuation indent).
C18_ContinuationReopensStyle ==
  \A k \in 1..Len(wResult) :
    LET e == wResult[k]
        active == getActiveAnsiAt(wLines[e.line + 1], e.offset)
    IN (/\ wCall.maxWidth > Len(WRAP_INDENT)
        /\ ~e.first
        /\ active # <<>>
        /\ ~StartsWith(TrimStart(stripAnsi(e.chunk)), Chars("at ")))
         => StartsWith(e.chunk, active)

----------------------------------------------------------------------------
(***************************************************************************)
(* Part 5.  format as text: a top-level call on a value tree, with styling *)
(* enabled or disabled.                                                    *)
(***************************************************************************)
MaxItems == 3
MaxNesting == 1

\* the primitives the values of the model are put together from
FormatPrimitives ==
  {VNum("1", 1), VNum("404", 404), VBool(TRUE), VNull, VUndefined,
   VStr(Chars("GET")), VStr(Chars("get")), VStr(Chars("Post")),
   VStr(Chars("DELETE")), VStr(Chars("GETS")),
   VStr(Repeat("x", 24)), VStr(Repeat("x", 25))}

RECURSIVE Nesting(_)
Nesting(v) ==
  IF ~IsComposite(v) THEN 0
  ELSE LET RECURSIVE Deepest(_)
           Deepest(k) == IF k = 0 THEN 0
                         ELSE Max2(Nesting(v.items[k]), Deepest(k - 1))
       IN 1 + Deepest(Len(v.items))

\* a caller adds a value to the ones it holds: any primitive first, then the
\* number 1 or the primitive added last once more
ValuePush(v) ==
  /\ ~vCall.called
  /\ Len(vItems) < MaxItems
  /\ IF Len(vItems) = 0 THEN TRUE
     ELSE v = VNum("1", 1) \/ v = vItems[Len(vItems)]
  /\ vItems' = Append(vItems, v)
  /\ UNCHANGED <<vCall, vResult>>
  /\ UNCHANGED notValue

\* a caller puts the values it holds into an array, or into an object under
\* the property names a, b, ...
ValueNest(asObject) ==
  /\ ~vCall.called
  /\ Len(vItems) > 0
  /\ \A k \in 1..Len(vItems) : Nesting(vItems[k]) < MaxNesting
  /\ vItems' = <<IF asObject
                   THEN VObject([k \in 1..Len(vItems) |-> <<Chars("abcdefgh")[k]>>],
                                vItems)
                   ELSE VArray(vItems)>>
  /\ UNCHANGED <<vCall, vResult>>
  /\ UNCHANGED notValue

\* the value handed to format: the array of the values held, or the only one
Argument(asArray) == IF asArray THEN VArray(vItems) ELSE vItems[1]

\* format(value), no options given, with state.enabled = en
ValueCall(asArray, en) ==
  /\ ~vCall.called
  /\ asArray \/ Len(vItems) = 1
  /\ vCall' = [called |-> TRUE, asArray |-> asArray, enabled |-> en]
  /\ vResult' = formatText(Argument(asArray), 0, DEFAULT_MAX_DEPTH, FALSE, en)
  /\ UNCHANGED vItems
  /\ UNCHANGED notValue

ValueNext ==
  \/ \E v \in FormatPrimitives : ValuePush(v)
  \/ \E asObject \in BOOLEAN : ValueNest(asObject)
  \/ \E asArray \in BOOLEAN, en \in BOOLEAN : ValueCall(asArray, en)

\* no value has been put together yet
InitValue ==
  /\ heap = <<>>
  /\ pc = "build"
  /\ maxDepthOpt = 0
  /\ stack = <<>>
  /\ seen = {}
  /\ out = <<>>
  /\ trace = <<>>
  /\ prevOut = NoOutcome
  /\ sParts = <<>>
  /\ sCall = NoCall
  /\ sResult = <<>>
  /\ tData = <<>>
  /\ tCall = NoTableCall
  /\ tResult = NoTable
  /\ wParts = <<>>
  /\ wCall = NoWrapCall
  /\ wpc = "build"
  /\ wLine = 0
  /\ wOffset = 0
  /\ wFirst = TRUE
  /\ wResult = <<>>
  /\ vItems = <<>>
  /\ vCall = NoValueCall
  /\ vResult = <<>>
  /\ timers = [k \in {} |-> 0]
  /\ counters = [k \in {} |-> 0]
  /\ now = 0
  /\ lCalls = <<>>
  /\ mProcs = <<>>
  /\ mOut = <<>>
  /\ groupIndentLevel = 0
  /\ gCalls = <<>>

SpecValue == InitValue /\ [][ValueNext]_vars

----------------------------------------------------------------------------
(***************************************************************************)
(* Properties of format as text.                                           *)
(***************************************************************************)
\* the inline form "[ a, b, c ]" of the array handed to format
InlineForm ==
  Chars("[ ")
  \o Join([k \in 1..Len(vItems) |->
             formatText(vItems[k], 1, DEFAULT_MAX_DEPTH, FALSE, vCall.enabled)],
          Chars(", "))
  \o Chars(" ]")
ArrayCall == vCall.called /\ vCall.asArray /\ Len(vItems) > 0

\* C14: a non-empty array is rendered on a single line exactly when its inline
\* form has fewer than 60 visible characters, styling enabled or not.
C14_SingleLineByVisualLength ==
  ArrayCall => ((vResult = InlineForm) <=> (visualLength(InlineForm) < SINGLE_LINE_LIMIT))

\* str.toUpperCase(), for the letters the strings of the model are made of
UpperCase(str) ==
  LET up == [c \in {"g", "e", "t", "o", "s"} |->
               CASE c = "g" -> "G" [] c = "e" -> "E" [] c = "t" -> "T"
                 [] c = "o" -> "O" [] c = "s" -> "S"]
  IN [k \in 1..Len(str) |-> IF str[k] \in DOMAIN up THEN up[str[k]] ELSE str[k]]
StringCall ==
  /\ vCall.called
  /\ ~vCall.asArray
  /\ vItems[1].kind = "string"

\* C15: a string that equals an HTTP verb when case is ignored is coloured by
\* its verb class; every other string is rendered as a generic, quoted string.
C15_VerbsMatchCaseInsensitively ==
  StringCall =>
    LET str == vItems[1].text
        verb == UpperCase(str)
    IN IF verb \in HttpVerbs
         THEN stripAnsi(vResult) = verb
              /\ vResult = (IF verb \in {Chars("GET"), Chars("HEAD"), Chars("OPTIONS")}
                              THEN httpSafe(verb, vCall.enabled)
                            ELSE IF verb = Chars("DELETE")
                              THEN httpDelete(verb, vCall.enabled)
                            ELSE httpMutation(verb, vCall.enabled))
         ELSE vResult = green(<<"\"">> \o str \o <<"\"">>, vCall.enabled)

\* C28: the styling flag changes control sequences only: the text format
\* returns with styling enabled, its control sequences stripped, is the text
\* format returns for the same value with styling disabled, line breaks
\* included.
C28_StylingLeavesLayoutAlone ==
  (vCall.called /\ vCall.enabled) =>
    stripAnsi(vResult) =
      formatText(Argument(vCall.asArray), 0, DEFAULT_MAX_DEPTH, FALSE, FALSE)

----------------------------------------------------------------------------
(***************************************************************************)
(* Part 6.  The timer store and the counter store of the module, shared by *)
(* every caller, with the clock the timers read.                           *)
(***************************************************************************)
MaxCalls == 3

BAR_WIDTH == 20
MAX_BUDGET == 500
Labels == {"a", "b"}
\* how far performance.now() moves between two readings
Ticks == {0, 150}

\* Map.set and Map.delete
MapSet(map, key, value) ==
  [k \in DOMAIN map \cup {key} |-> IF k = key THEN value ELSE map[k]]
MapDelete(map, key) == [k \in DOMAIN map \ {key} |-> map[k]]

NoBar == [label |-> "", color |-> "none", fill |-> 0, empty |-> 0, ms |-> 0]
\* renderBar without maxWidth: the colour class, the filled and the empty
\* blocks of the bar, and the time shown
renderBar(label, ms) ==
  LET colorFn == IF ms > 200 THEN "error" ELSE IF ms > 50 THEN "warn" ELSE "success"
      barWidth == BAR_WIDTH
      \* Math.ceil(Math.min(ms / maxBudget, 1) * barWidth)
      fillCount == IF ms >= MAX_BUDGET THEN barWidth
                   ELSE (ms * barWidth + (MAX_BUDGET - 1)) \div MAX_BUDGET
  IN [label |-> label, color |-> colorFn, fill |-> fillCount,
      empty |-> barWidth - fillCount, ms |-> ms]
\* one call as the caller saw it
CallRecord(op, label, returned, bar, n) ==
  [op |-> op, label |-> label, returned |-> returned, bar |-> bar, n |-> n]

startTimer(label, tick) ==
  /\ Len(lCalls) < MaxCalls
  /\ now' = now + tick
  /\ timers' = MapSet(timers, label, now')
  /\ lCalls' = Append(lCalls, CallRecord("startTimer", label, "void", NoBar, 0))
  /\ UNCHANGED counters
  /\ UNCHANGED notLog

\* endTimer that leaves the timer in the store
endTimerKeepsTimer(label, tick) ==
  /\ Len(lCalls) < MaxCalls
  /\ IF label \notin DOMAIN timers
       THEN /\ lCalls' = Append(lCalls, CallRecord("endTimer", label, "null", NoBar, 0))
            /\ UNCHANGED <<now, timers>>
       ELSE /\ now' = now + tick
            /\ timers' = timers
            /\ lCalls' = Append(lCalls,
                 CallRecord("endTimer", label, "string",
                            renderBar(label, now' - timers[label]), 0))
  /\ UNCHANGED counters
  /\ UNCHANGED notLog
endTimer(label, tick) ==
  /\ Len(lCalls) < MaxCalls
  /\ IF label \notin DOMAIN timers
       THEN /\ lCalls' = Append(lCalls, CallRecord("endTimer", label, "null", NoBar, 0))
            /\ UNCHANGED <<now, timers>>
       ELSE /\ now' = now + tick
            /\ timers' = MapDelete(timers, label)
            /\ lCalls' = Append(lCalls,
                 CallRecord("endTimer", label, "string",
                            renderBar(label, now' - timers[label]), 0))
  /\ UNCHANGED counters
  /\ UNCHANGED notLog

logTimer(label, tick) ==
  /\ Len(lCalls) < MaxCalls
  /\ IF label \notin DOMAIN timers
       THEN /\ lCalls' = Append(lCalls, CallRecord("logTimer", label, "null", NoBar, 0))
            /\ UNCHANGED now
       ELSE /\ now' = now + tick
            /\ lCalls' = Append(lCalls,
                 CallRecord("logTimer", label, "string",
                            renderBar(label, now' - timers[label]), 0))
  /\ UNCHANGED <<timers, counters>>
  /\ UNCHANGED notLog

\* counters.get(label) || 0
CounterGet(label) ==
  IF label \in DOMAIN counters /\ counters[label] # 0 THEN counters[label] ELSE 0
incrementCounter(label) ==
  /\ Len(lCalls) < MaxCalls
  /\ counters' = MapSet(counters, label, CounterGet(label) + 1)
  /\ lCalls' = Append(lCalls,
       CallRecord("incrementCounter", label, "number", NoBar, CounterGet(label) + 1))
  /\ UNCHANGED <<timers, now>>
  /\ UNCHANGED notLog

\* resetCounter that empties the whole store
resetCounterClearsAll(label) ==
  /\ Len(lCalls) < MaxCalls
  /\ counters' = [k \in {} |-> 0]
  /\ lCalls' = Append(lCalls, CallRecord("resetCounter", label, "void", NoBar, 0))
  /\ UNCHANGED <<timers, now>>
  /\ UNCHANGED notLog
resetCounter(label) ==
  /\ Len(lCalls) < MaxCalls
  /\ counters' = MapDelete(counters, label)
  /\ lCalls' = Append(lCalls, CallRecord("resetCounter", label, "void", NoBar, 0))
  /\ UNCHANGED <<timers, now>>
  /\ UNCHANGED notLog

\* Vero.count: increments the counter and prints "label: count"
count(label) ==
  /\ Len(lCalls) < MaxCalls
  /\ counters' = MapSet(counters, label, CounterGet(label) + 1)
  /\ lCalls' = Append(lCalls,
       CallRecord("count", label, "void", NoBar, CounterGet(label) + 1))
  /\ UNCHANGED <<timers, now>>
  /\ UNCHANGED notLog

LogNext ==
  \/ \E label \in Labels, tick \in Ticks : startTimer(label, tick)
  \/ \E label \in Labels, tick \in Ticks : endTimer(label, tick)
  \/ \E label \in Labels, tick \in Ticks : logTimer(label, tick)
  \/ \E label \in Labels : incrementCounter(label)
  \/ \E label \in Labels : resetCounter(label)
  \/ \E label \in Labels : count(label)

\* the module has just been loaded: both stores are empty
InitLog ==
  /\ heap = <<>>
  /\ pc = "build"
  /\ maxDepthOpt = 0
  /\ stack = <<>>
  /\ seen = {}
  /\ out = <<>>
  /\ trace = <<>>
  /\ prevOut = NoOutcome
  /\ sParts = <<>>
  /\ sCall = NoCall
  /\ sResult = <<>>
  /\ tData = <<>>
  /\ tCall = NoTableCall
  /\ tResult = NoTable
  /\ wParts = <<>>
  /\ wCall = NoWrapCall
  /\ wpc = "build"
  /\ wLine = 0
  /\ wOffset = 0
  /\ wFirst = TRUE
  /\ wResult = <<>>
  /\ vItems = <<>>
  /\ vCall = NoValueCall
  /\ vResult = <<>>
  /\ timers = [k \in {} |-> 0]
  /\ counters = [k \in {} |-> 0]
  /\ now = 0
  /\ lCalls = <<>>
  /\ mProcs = <<>>
  /\ mOut = <<>>
  /\ groupIndentLevel = 0
  /\ gCalls = <<>>

SpecLog == InitLog /\ [][LogNext]_vars

----------------------------------------------------------------------------
(***************************************************************************)
(* Properties of the timers and the counters, stated over the calls made.  *)
(***************************************************************************)
\* the calls before call i
Before(i) == SubSeq(lCalls, 1, i - 1)
\* a timer for label is running after the calls h: the last startTimer or
\* endTimer for the label in h is a startTimer
RECURSIVE Running(_, _)
Running(h, label) ==
  IF h = <<>> THEN FALSE
  ELSE LET e == h[Len(h)]
       IN IF e.label = label /\ e.op = "startTimer" THEN TRUE
          ELSE IF e.label = label /\ e.op = "endTimer" THEN FALSE
          ELSE Running(SubSeq(h, 1, Len(h) - 1), label)
\* the increments of label in h since its last resetCounter
RECURSIVE Increments(_, _)
Increments(h, label) ==
  IF h = <<>> THEN 0
  ELSE LET e == h[Len(h)]
       IN IF e.label = label /\ e.op = "resetCounter" THEN 0
          ELSE IF e.label = label /\ e.op \in {"incrementCounter", "count"}
            THEN Increments(SubSeq(h, 1, Len(h) - 1), label) + 1
          ELSE Increments(SubSeq(h, 1, Len(h) - 1), label)

\* C19: for every label a timer runs exactly from a startTimer until the next
\* endTimer of that label; endTimer and logTimer return a visualization when
\* it is running and null when it is not, logTimer leaves it running, and
\* calls for other labels do not affect it.
C19_TimerRunsFromStartToEnd ==
  /\ \A label \in Labels : (label \in DOMAIN timers) <=> Running(lCalls, label)
  /\ \A i \in 1..Len(lCalls) :
       lCalls[i].op \in {"endTimer", "logTimer"}
         => /\ lCalls[i].returned \in {"string", "null"}
            /\ (lCalls[i].returned = "string") <=> Running(Before(i), lCalls[i].label)
\* two timers were started, a was logged and ended and b is still running
C19_Witness ==
  /\ Len(lCalls) >= 3
  /\ lCalls[1].op = "startTimer" /\ lCalls[1].label = "a"
  /\ lCalls[2].op = "startTimer" /\ lCalls[2].label = "b"
  /\ lCalls[3].op = "endTimer" /\ lCalls[3].label = "a"
  /\ lCalls[3].returned = "string"
  /\ "a" \notin DOMAIN timers
  /\ "b" \in DOMAIN timers

\* C20: the k-th increment of a label since its last reset, or since the start,
\* returns k, so the one after a reset returns 1; incrementing or resetting a
\* label leaves the counters of the other labels as they were.
C20_IncrementReturnsCountSinceReset ==
  /\ \A label \in Labels :
       (IF label \in DOMAIN counters THEN counters[label] ELSE 0)
         = Increments(lCalls, label)
  /\ \A i \in 1..Len(lCalls) :
       lCalls[i].op \in {"incrementCounter", "count"}
         => lCalls[i].n = Increments(SubSeq(lCalls, 1, i), lCalls[i].label)
\* a was incremented and reset, and its next increment returned 1 again
C20_Witness ==
  /\ Len(lCalls) >= 3
  /\ lCalls[1].op = "incrementCounter" /\ lCalls[1].label = "a" /\ lCalls[1].n = 1
  /\ lCalls[2].op = "resetCounter" /\ lCalls[2].label = "a"
  /\ lCalls[3].op = "incrementCounter" /\ lCalls[3].label = "a" /\ lCalls[3].n = 1

----------------------------------------------------------------------------
(***************************************************************************)
(* Part 7.  Vero.measure: an async function that starts the timer, awaits  *)
(* the measured function and stops the timer.  A call is one step up to    *)
(* its await and one step when it resumes; calls overlap freely.  The      *)
(* display is at least 60 columns wide, so timeEnd passes no maxBarWidth.  *)
(***************************************************************************)
MaxMeasures == 2

\* what the measured function does: return a value or throw before the await,
\* or hand back a promise that resolves or rejects later
Behaviours == {"returns", "throws", "resolves", "rejects"}

\* measure up to its await: this.time(label), then fn() is called
MeasureCall(label, behaviour, tick) ==
  /\ Len(mProcs) < MaxMeasures
  /\ now' = now + tick
  /\ timers' = MapSet(timers, label, now')
  /\ mProcs' = Append(mProcs,
       [label |-> label, behaviour |-> behaviour,
        pc |-> IF behaviour = "throws" THEN "settled" ELSE "awaiting",
        promise |-> IF behaviour = "throws" THEN "rejected" ELSE "pending",
        overlapped |-> \E j \in 1..Len(mProcs) :
                          mProcs[j].label = label /\ mProcs[j].pc = "awaiting",
        timerLeft |-> behaviour = "throws"])
  /\ UNCHANGED <<mOut, counters, lCalls>>
  /\ UNCHANGED notMeasure

\* measure after its await: a rejection leaves the function at once, a value
\* goes through this.timeEnd(label), which prints when endTimer gave a bar
MeasureResume(id, tick) ==
  /\ id \in 1..Len(mProcs)
  /\ mProcs[id].pc = "awaiting"
  /\ LET label == mProcs[id].label
     IN IF mProcs[id].behaviour = "rejects"
          THEN /\ mProcs' = [mProcs EXCEPT ![id].pc = "settled",
                               ![id].promise = "rejected",
                               ![id].timerLeft = (label \in DOMAIN timers)]
               /\ UNCHANGED <<now, timers, mOut>>
          ELSE /\ IF label \in DOMAIN timers
                    THEN /\ now' = now + tick
                         /\ timers' = MapDelete(timers, label)
                         /\ mOut' = Append(mOut,
                              [id |-> id, label |-> label,
                               bar |-> renderBar(label, now' - timers[label])])
                    ELSE UNCHANGED <<now, timers, mOut>>
               /\ mProcs' = [mProcs EXCEPT ![id].pc = "settled",
                               ![id].promise = "fulfilled",
                               ![id].timerLeft = FALSE]
  /\ UNCHANGED <<counters, lCalls>>
  /\ UNCHANGED notMeasure

MeasureNext ==
  \/ \E label \in Labels, behaviour \in Behaviours, tick \in Ticks :
        MeasureCall(label, behaviour, tick)
  \/ \E id \in 1..MaxMeasures, tick \in Ticks : MeasureResume(id, tick)

\* the module has just been loaded: no measure call was made
InitMeasure ==
  /\ heap = <<>>
  /\ pc = "build"
  /\ maxDepthOpt = 0
  /\ stack = <<>>
  /\ seen = {}
  /\ out = <<>>
  /\ trace = <<>>
  /\ prevOut = NoOutcome
  /\ sParts = <<>>
  /\ sCall = NoCall
  /\ sResult = <<>>
  /\ tData = <<>>
  /\ tCall = NoTableCall
  /\ tResult = NoTable
  /\ wParts = <<>>
  /\ wCall = NoWrapCall
  /\ wpc = "build"
  /\ wLine = 0
  /\ wOffset = 0
  /\ wFirst = TRUE
  /\ wResult = <<>>
  /\ vItems = <<>>
  /\ vCall = NoValueCall
  /\ vResult = <<>>
  /\ timers = [k \in {} |-> 0]
  /\ counters = [k \in {} |-> 0]
  /\ now = 0
  /\ lCalls = <<>>
  /\ mProcs = <<>>
  /\ mOut = <<>>
  /\ groupIndentLevel = 0
  /\ gCalls = <<>>

SpecMeasure == InitMeasure /\ [][MeasureNext]_vars

----------------------------------------------------------------------------
(***************************************************************************)
(* Properties of measure.                                                  *)
(***************************************************************************)
\* C21: once the promise of a measure call has settled, whether the function
\* returned, resolved, threw or rejected, no timer for its label was left
\* running in the timer store.
C21_SettledMeasureLeavesNoTimer ==
  \A id \in 1..Len(mProcs) :
    mProcs[id].pc = "settled" => ~mProcs[id].timerLeft

\* the timing lines call id printed
LinesOf(id) == {k \in 1..Len(mOut) : mOut[k].id = id}
\* C30: when a measure call starts while an earlier one with the same label is
\* still awaiting its function, and both functions complete, each of the two
\* calls has printed exactly one timing line and no timer for the label is
\* left in the store.
C30_OverlappingMeasuresEachPrint ==
  \A i \in 1..Len(mProcs) : \A j \in 1..Len(mProcs) :
    (/\ i < j
     /\ mProcs[i].label = mProcs[j].label
     /\ mProcs[j].overlapped
     /\ mProcs[i].promise = "fulfilled"
     /\ mProcs[j].promise = "fulfilled")
      => /\ Cardinality(LinesOf(i)) = 1
         /\ Cardinality(LinesOf(j)) = 1
         /\ mProcs[i].label \notin DOMAIN timers

----------------------------------------------------------------------------
(***************************************************************************)
(* Part 8.  Groups: the module-wide indent level, the calls that move it   *)
(* and what print writes under it, in normal mode and in the card view of  *)
(* small screens.  Styling is enabled.                                     *)
(***************************************************************************)
MaxGroupCalls == 3

\* the Vero instances that call: [showTimestamp, useIcons]
Configs == {[showTimestamp |-> TRUE, useIcons |-> TRUE],
            [showTimestamp |-> FALSE, useIcons |-> FALSE]}
\* what getTerminalWidth() returns
DisplayWidths == {40, 80}
\* a reading of getTimestamp()
TIMESTAMP == Chars("12:00:00.000")
ICON_LOG == <<"ICON_LOG">>
ICON_GROUP_COLLAPSED == <<"ICON_GROUP_COLLAPSED">>

\* createLogCard(level, badge, message) on a display tw wide, for content that
\* wrapText returns as the single line it was given
createLogCard(badge, message, tw) ==
  LET cardWidth == Min2(tw - 4, MAX_CARD_WIDTH)
      headerContent == <<" ">> \o TIMESTAMP \o <<" ">>
      headerLineWidth == cardWidth - Len(headerContent)
      fullContent == <<" ">> \o badge \o Chars("  ") \o message
      innerWidth == cardWidth - 1
      contentLines == IF visualLength(fullContent) <= innerWidth
                        THEN <<fullContent>> ELSE <<>>
  IN <<gray(<<"top_left">> \o headerContent
            \o Repeat(BOX_H, Max2(0, headerLineWidth)) \o <<"top_right">>, TRUE)>>
     \o [k \in 1..Len(contentLines) |->
           gray(BOX_V, TRUE) \o contentLines[k]
           \o Repeat(" ", Max2(0, innerWidth - visualLength(contentLines[k])))
           \o <<" ">> \o gray(BOX_V, TRUE)]
     \o <<gray(<<"bottom_left">> \o Repeat(BOX_H, cardWidth)
               \o <<"bottom_right">>, TRUE)>>

\* colorFn(t) for the two colour functions the calls of the model pass
ColorFn(color, text) ==
  IF color = "white" THEN white(text, TRUE) ELSE dim(text, TRUE)
\* print(level, colorFn, [message]) by an instance configured cfg on a display
\* tw wide: the lines written to the console
print(cfg, tw, level, color, message) ==
  LET useCardView == cfg.showTimestamp /\ tw < SMALL_SCREEN_THRESHOLD
      \* ICONS[level] || level
      icon == IF ~cfg.useIcons THEN level
              ELSE IF level = Chars("log") THEN ICON_LOG ELSE level
      badge == bold(ColorFn(color, icon), TRUE)
      indent == Repeat(" ", 2 * groupIndentLevel)
      parts == (IF cfg.showTimestamp THEN <<dim(gray(TIMESTAMP, TRUE), TRUE)>> ELSE <<>>)
               \o <<badge, indent \o message>>
  IN IF useCardView
       THEN [mode |-> "card", lines |-> createLogCard(badge, message, tw)]
       ELSE [mode |-> "normal", lines |-> <<Join(parts, Chars("  "))>>]
NoPrint == [mode |-> "none", lines |-> <<>>]
\* Vero.log(text)
log(cfg, tw, text) == print(cfg, tw, Chars("log"), "white", white(text, TRUE))
\* one call as it happened: the level it found, the text it was given and
\* what it wrote
GroupCallRecord(op, text, printed) ==
  [op |-> op, level |-> groupIndentLevel, text |-> text, printed |-> printed]

\* Vero.log("m")
LogCall(cfg, tw) ==
  /\ Len(gCalls) < MaxGroupCalls
  /\ gCalls' = Append(gCalls, GroupCallRecord("log", Chars("m"), log(cfg, tw, Chars("m"))))
  /\ UNCHANGED groupIndentLevel
  /\ UNCHANGED notGroup

\* Vero.group(title?)
group(cfg, tw, hasTitle) ==
  /\ Len(gCalls) < MaxGroupCalls
  /\ gCalls' = Append(gCalls,
       IF hasTitle
         THEN GroupCallRecord("group", Chars("T"), log(cfg, tw, bold(Chars("T"), TRUE)))
         ELSE GroupCallRecord("group", <<>>, NoPrint))
  /\ groupIndentLevel' = groupIndentLevel + 1
  /\ UNCHANGED notGroup

\* Vero.groupCollapsed(), without arguments
groupCollapsed(cfg, tw) ==
  /\ Len(gCalls) < MaxGroupCalls
  /\ LET icon == IF cfg.useIcons THEN ICON_GROUP_COLLAPSED ELSE Chars("GROUP")
     IN gCalls' = Append(gCalls,
          GroupCallRecord("groupCollapsed", Chars("Group"),
                          print(cfg, tw, icon, "dim", gray(Chars("Group"), TRUE))))
  /\ groupIndentLevel' = groupIndentLevel + 1
  /\ UNCHANGED notGroup

\* groupEnd that decrements whatever the level is
groupEndUnguarded ==
  /\ Len(gCalls) < MaxGroupCalls
  /\ gCalls' = Append(gCalls, GroupCallRecord("groupEnd", <<>>, NoPrint))
  /\ groupIndentLevel' = groupIndentLevel - 1
  /\ UNCHANGED notGroup
\* Vero.groupEnd()
groupEnd ==
  /\ Len(gCalls) < MaxGroupCalls
  /\ gCalls' = Append(gCalls, GroupCallRecord("groupEnd", <<>>, NoPrint))
  /\ groupIndentLevel' = IF groupIndentLevel > 0 THEN groupIndentLevel - 1
                         ELSE groupIndentLevel
  /\ UNCHANGED notGroup

GroupNext ==
  \/ \E cfg \in Configs, tw \in DisplayWidths : LogCall(cfg, tw)
  \/ \E cfg \in Configs, tw \in DisplayWidths, hasTitle \in BOOLEAN :
        group(cfg, tw, hasTitle)
  \/ \E cfg \in Configs, tw \in DisplayWidths : groupCollapsed(cfg, tw)
  \/ groupEnd

\* the module has just been loaded: no group is open
InitGroup ==
  /\ heap = <<>>
  /\ pc = "build"
  /\ maxDepthOpt = 0
  /\ stack = <<>>
  /\ seen = {}
  /\ out = <<>>
  /\ trace = <<>>
  /\ prevOut = NoOutcome
  /\ sParts = <<>>
  /\ sCall = NoCall
  /\ sResult = <<>>
  /\ tData = <<>>
  /\ tCall = NoTableCall
  /\ tResult = NoTable
  /\ wParts = <<>>
  /\ wCall = NoWrapCall
  /\ wpc = "build"
  /\ wLine = 0
  /\ wOffset = 0
  /\ wFirst = TRUE
  /\ wResult = <<>>
  /\ vItems = <<>>
  /\ vCall = NoValueCall
  /\ vResult = <<>>
  /\ timers = [k \in {} |-> 0]
  /\ counters = [k \in {} |-> 0]
  /\ now = 0
  /\ lCalls = <<>>
  /\ mProcs = <<>>
  /\ mOut = <<>>
  /\ groupIndentLevel = 0
  /\ gCalls = <<>>

SpecGroup == InitGroup /\ [][GroupNext]_vars

----------------------------------------------------------------------------
(***************************************************************************)
(* Properties of groups.                                                   *)
(***************************************************************************)
\* the groups open after the calls h: every group and groupCollapsed opens
\* one, every groupEnd that finds one open closes one
RECURSIVE OpenGroups(_)
OpenGroups(h) ==
  IF h = <<>> THEN 0
  ELSE LET before == OpenGroups(SubSeq(h, 1, Len(h) - 1))
           op == h[Len(h)].op
       IN IF op \in {"group", "groupCollapsed"} THEN before + 1
          ELSE IF op = "groupEnd" /\ before > 0 THEN before - 1
          ELSE before
\* the visible text of the printed line that carries the message
MessageLine(e) ==
  stripAnsi(IF e.printed.mode = "card" THEN e.printed.lines[2] ELSE e.printed.lines[1])
\* where text starts in line (0 when it does not occur)
IndexOf(line, text) ==
  LET hits == {p \in 1..(Len(line) - Len(text) + 1) :
                 SubSeq(line, p, p + Len(text) - 1) = text}
  IN IF hits = {} THEN 0 ELSE CHOOSE p \in hits : \A q \in hits : p <= q
\* the blanks that stand right before position p of line
RECURSIVE BlanksBefore(_, _)
BlanksBefore(line, p) ==
  IF p > 1 /\ line[p - 1] = " " THEN 1 + BlanksBefore(line, p - 1) ELSE 0

\* C22: a line printed while k groups are open carries its message k levels of
\* two blanks further in than the two blanks that follow the badge, in normal
\* mode and in the card view.
C22_PrintedLinesIndentedByOpenGroups ==
  \A i \in 1..Len(gCalls) :
    gCalls[i].printed.mode # "none" =>
      LET line == MessageLine(gCalls[i])
          p == IndexOf(line, gCalls[i].text)
          k == OpenGroups(SubSeq(gCalls, 1, i - 1))
      IN p > 0 /\ BlanksBefore(line, p) = 2 + 2 * k

\* C29: after any calls of group, groupCollapsed and groupEnd by any instances
\* the group indent level is never negative and equals the opens minus the
\* groupEnd calls that found a group open; a groupEnd with none open leaves
\* it at 0.
C29_LevelTracksOpenGroups ==
  /\ groupIndentLevel >= 0
  /\ groupIndentLevel = OpenGroups(gCalls)
  /\ \A i \in 1..Len(gCalls) :
       (gCalls[i].op = "groupEnd" /\ gCalls[i].level = 0)
         => OpenGroups(SubSeq(gCalls, 1, i)) = 0
\* a groupEnd found no group open, then a group was opened and closed again
C29_Witness ==
  /\ Len(gCalls) = 3
  /\ gCalls[1].op = "groupEnd"
  /\ gCalls[2].op \in {"group", "groupCollapsed"}
  /\ gCalls[3].op = "groupEnd"
  /\ gCalls[3].level = 1
  /\ groupIndentLevel = 0

====
